---- MODULE Spec2Model ----
(***************************************************************************)
(* A state-machine model of the rodan-online-store backend: coupons,       *)
(* order creation (POST orders and create_from_cart), the shopping cart,   *)
(* and SKU generation.  Each action is one request handler, executed       *)
(* atomically (requests run one after another).                            *)
(*                                                                         *)
(* Money.  Python Decimal values are exact; a DecimalField(max_digits=10,  *)
(* decimal_places=2) column holds two decimal places, so a value is        *)
(* rounded when it is written to its row.  Amounts are integers counted    *)
(* in units of 10^-4 of the currency (a cent is Cent = 100 units), which   *)
(* represents exactly every value the code computes from prices in cents   *)
(* and whole-number percentages.                                           *)
(***************************************************************************)
EXTENDS Integers, Sequences, FiniteSets, TLC

VARIABLES
    now,        \* timezone.now(), a logical clock
    rounding,   \* rounding mode of the database backend for decimal columns
    coupons,    \* Coupon rows, by code
    usages,     \* CouponUsage rows
    orders,     \* Order rows with their OrderItem rows, by id (1..Len)
    calc,       \* the Order object after each calculate_totals of the last create
    products,   \* Product rows
    variations, \* ProductVariation rows
    carts,      \* Cart rows with their CartItem rows, by user
    payments,   \* Payment rows, by id (1..Len)
    resp,       \* the last request and its response
    sku_rows,   \* the rows (id, sku) of the model class ensure_unique_sku queries
    sku_call,   \* the running call of ensure_unique_sku: its locals
    inflight    \* the order-creation requests being served: their locals

vars == <<now, rounding, coupons, usages, orders, calc, products, variations, carts,
          payments, resp, sku_rows, sku_call, inflight>>

----------------------------------------------------------------------------
(* Bounds of the model *)

MaxOrders == 2
MaxClock == 3
MaxCartQty == 2
MaxCheckouts == 1

(* Program constants *)

DecimalPlaces == 2
CounterLimit == 999

----------------------------------------------------------------------------
(* Values *)

None == <<>>
Some(x) == <<x>>
NULL == "NULL"

Cent == 10 ^ DecimalPlaces
Money(cents) == cents * Cent

Min(a, b) == IF a <= b THEN a ELSE b
Max(a, b) == IF a >= b THEN a ELSE b

Users == {"u1", "u2"}
StaffUsers == {"staff"}
is_staff(user) == user \in StaffUsers
ProductIds == {"P1", "P2"}
VariationIds == {"V1"}

RoundingModes == {"ROUND_HALF_EVEN", "ROUND_HALF_UP"}

(* A decimal written to a decimal_places=2 column: rounded to a whole      *)
(* number of cents, halves to even (Django's format_number) or up (the     *)
(* database's own numeric rounding).  x >= 0.                              *)
Quantize(x, mode) ==
    LET q == x \div Cent
        r == x % Cent
        half == Cent \div 2
        up == IF mode = "ROUND_HALF_EVEN"
              THEN r > half \/ (r = half /\ q % 2 = 1)
              ELSE r >= half
    IN  IF up THEN (q + 1) * Cent ELSE q * Cent

RECURSIVE SumSeq(_)
SumSeq(s) == IF s = <<>> THEN 0 ELSE Head(s) + SumSeq(Tail(s))

----------------------------------------------------------------------------
(* Coupon *)

is_valid_NoUsageLimit(c, t) ==
    /\ c.is_active
    /\ c.start_date <= t /\ t <= c.end_date
is_valid(c, t) ==
    /\ c.is_active
    /\ c.start_date <= t /\ t <= c.end_date
    /\ (c.usage_limit = None \/ c.times_used < c.usage_limit[1])

user_usage(us, code, user) ==
    Cardinality({x \in us : x.coupon = code /\ x.user = user})

can_be_used_by_user_AnyCount(c, us, user, t) == is_valid(c, t)
can_be_used_by_user(c, us, user, t) ==
    IF ~is_valid(c, t) THEN FALSE
    ELSE user_usage(us, c.code, user) < c.usage_limit_per_user

(* discount_value is a whole percentage for 'percentage' coupons and an    *)
(* amount for 'fixed' coupons.                                             *)
get_discount_amount(c, order_total) ==
    CASE c.discount_type = "percentage" ->
            Min((order_total * c.discount_value) \div 100, order_total)
      [] c.discount_type = "fixed" -> Min(c.discount_value, order_total)
      [] c.discount_type = "free_shipping" -> 0
      [] OTHER -> 0

----------------------------------------------------------------------------
(* Product, ProductVariation *)

Product_discounted_price(p) ==
    IF p.price = None THEN 0
    ELSE IF p.discount_type # NULL /\ p.discount # 0
         THEN IF p.discount_type = "percentage" /\ p.discount > 0
              THEN (p.price[1] * (100 - p.discount)) \div 100
              ELSE IF p.discount_type = "fixed" /\ p.discount > 0
                   THEN Max(0, p.price[1] - Money(100 * p.discount))
                   ELSE p.price[1]
         ELSE p.price[1]

----------------------------------------------------------------------------
(* Order, OrderItem *)

(* OrderItem.save: the subtotal is computed from the unit price as given,  *)
(* then both are written to their two-decimal columns.                     *)
OrderItem_save(product, variation, quantity, unit_price, mode) ==
    [product |-> product, product_variation |-> variation,
     quantity |-> quantity,
     unit_price |-> Quantize(unit_price, mode),
     subtotal |-> Quantize(unit_price * quantity, mode)]

ItemSubtotals(items) == [i \in DOMAIN items |-> items[i].subtotal]

(* Order.calculate_totals on an Order object whose coupon attribute is the *)
(* Coupon object c (None when the order has no coupon): the object's       *)
(* fields after the call.                                                  *)
calculate_totals(items, shipping_cost, tax_amount, c, t) ==
    LET subtotal == SumSeq(ItemSubtotals(items))
        discount_amount ==
            IF c # None /\ is_valid(c[1], t)
            THEN IF subtotal >= c[1].minimum_order_amount
                 THEN get_discount_amount(c[1], subtotal)
                 ELSE 0
            ELSE 0
    IN  [n_items |-> Len(items), subtotal |-> subtotal,
         discount_amount |-> discount_amount,
         shipping_cost |-> shipping_cost, tax_amount |-> tax_amount,
         total_amount |-> subtotal + shipping_cost + tax_amount - discount_amount]

----------------------------------------------------------------------------
(* Requests *)

PaymentMethods == {"cash_on_delivery", "mpesa", "card", "bank_transfer"}

RequiredShippingFields ==
    <<"shipping_first_name", "shipping_last_name", "shipping_email",
      "shipping_phone", "shipping_address_line_1", "shipping_city">>

AllShippingFields == {RequiredShippingFields[i] : i \in DOMAIN RequiredShippingFields}

(* str.upper() on the coupon codes a request may carry *)
Upper(code) ==
    CASE code = "save10" -> "SAVE10"
      [] OTHER -> code

NoResp == [op |-> "none", user |-> NULL, status |-> 0, code |-> "", quantity |-> 0,
           error |-> "", target |-> 0, request |-> <<>>, shown |-> {}]

(* The request (its operation, user, coupon code or quantity) with the     *)
(* response's status and error                                             *)
Response(op, user, status, code, quantity, error) ==
    [NoResp EXCEPT !.op = op, !.user = user, !.status = status, !.code = code,
                   !.quantity = quantity, !.error = error]

----------------------------------------------------------------------------
(* OrderCreateSerializer *)

(* validate_coupon_code: "ok" with the Coupon object (None for a blank     *)
(* code), or "error".                                                      *)
validate_coupon_code_Unchecked(value, cs, t) ==
    IF value # ""
    THEN IF Upper(value) \in DOMAIN cs
         THEN [ok |-> TRUE, coupon |-> Some(cs[Upper(value)])]
         ELSE [ok |-> FALSE, coupon |-> None]
    ELSE [ok |-> TRUE, coupon |-> None]
validate_coupon_code(value, cs, t) ==
    IF value # ""
    THEN IF Upper(value) \in DOMAIN cs
         THEN IF ~is_valid(cs[Upper(value)], t)
              THEN [ok |-> FALSE, coupon |-> None]
              ELSE [ok |-> TRUE, coupon |-> Some(cs[Upper(value)])]
         ELSE [ok |-> FALSE, coupon |-> None]
    ELSE [ok |-> TRUE, coupon |-> None]

(* The item fields: product and variation exist, quantity >= 1 and a unit  *)
(* price is given.                                                         *)
OrderItemFieldsValid(it) ==
    /\ it.product \in ProductIds
    /\ it.product_variation \in VariationIds \cup {NULL}
    /\ it.quantity >= 1
    /\ it.unit_price # None

(* OrderItemCreateSerializer.validate: the unit price is set from the      *)
(* variation or the product, whatever the request gave.                    *)
OrderItemCreateSerializer_validate(it, ps, vs) ==
    [product |-> it.product, product_variation |-> it.product_variation,
     quantity |-> it.quantity,
     unit_price |-> IF it.product_variation # NULL
                    THEN vs[it.product_variation].price[1]
                    ELSE Product_discounted_price(ps[it.product])]

(* is_valid(): every field validator passes *)
OrderCreateSerializer_is_valid(data, cs, t) ==
    /\ AllShippingFields \subseteq data.fields
    /\ data.payment_method \in PaymentMethods
    /\ data.items # <<>>
    /\ \A i \in DOMAIN data.items : OrderItemFieldsValid(data.items[i])
    /\ validate_coupon_code(data.coupon_code, cs, t).ok

(* create(): the new Order row, the Coupon and CouponUsage tables after    *)
(* it, and the Order object after each calculate_totals call (one per      *)
(* OrderItem save, then the closing one).                                  *)
OrderCreateSerializer_create(data, user, id, cs, us, ps, vs, t, mode) ==
    LET coupon == validate_coupon_code(data.coupon_code, cs, t).coupon
        applied == coupon # None /\ can_be_used_by_user(coupon[1], us, user, t)
        \* coupon.times_used += 1; coupon.save()
        used == IF applied
                THEN Some([coupon[1] EXCEPT !.times_used = @ + 1])
                ELSE None
        cs2 == IF applied THEN [cs EXCEPT ![coupon[1].code] = used[1]] ELSE cs
        us2 == IF applied
               THEN us \cup {[coupon |-> coupon[1].code, user |-> user, order |-> id]}
               ELSE us
        vitems == [i \in DOMAIN data.items |->
                     OrderItemCreateSerializer_validate(data.items[i], ps, vs)]
        items == [i \in DOMAIN vitems |->
                     OrderItem_save(vitems[i].product, vitems[i].product_variation,
                                    vitems[i].quantity, vitems[i].unit_price, mode)]
        \* order.coupon is the Coupon object that was just incremented
        totals(k) == calculate_totals(SubSeq(items, 1, k), data.shipping_cost,
                                      data.tax_amount, used, t)
        log == [k \in 1..(Len(items) + 1) |->
                  [order |-> id] @@ totals(Min(k, Len(items)))]
        final == log[Len(log)]
    IN  [order |-> [id |-> id, user |-> user, status |-> "created",
                    coupon |-> IF applied THEN coupon[1].code ELSE NULL,
                    payment_method |-> data.payment_method,
                    subtotal |-> Quantize(final.subtotal, mode),
                    shipping_cost |-> data.shipping_cost,
                    tax_amount |-> data.tax_amount,
                    discount_amount |-> Quantize(final.discount_amount, mode),
                    total_amount |-> Quantize(final.total_amount, mode),
                    confirmed_at |-> None, shipped_at |-> None,
                    delivered_at |-> None, tracking_number |-> "",
                    items |-> items],
         coupons |-> cs2, usages |-> us2, calc |-> log]

----------------------------------------------------------------------------
(* Cart, CartItem *)

NoCart == [exists |-> FALSE, items |-> <<>>]

(* ProductVariation.discounted_price: the same rule as the product's *)
ProductVariation_discounted_price(v) == Product_discounted_price(v)

CartItem_unit_price(ci, ps, vs) ==
    IF ci.product_variation # NULL
    THEN vs[ci.product_variation].price
    ELSE ps[ci.product].price

CartItem_is_available(ci, ps, vs) ==
    IF ~ps[ci.product].is_active THEN FALSE
    ELSE IF ci.product_variation # NULL /\ ~vs[ci.product_variation].is_active
         THEN FALSE
         ELSE IF ci.product_variation # NULL
              THEN vs[ci.product_variation].stock_quantity >= ci.quantity
              ELSE ps[ci.product].stock_quantity >= ci.quantity

(* The index of the cart's line for (product, variation), 0 when none *)
LineOf(items, product, variation) ==
    LET hits == {i \in DOMAIN items : /\ items[i].product = product
                                      /\ items[i].product_variation = variation}
    IN  IF hits = {} THEN 0 ELSE CHOOSE i \in hits : \A j \in hits : i <= j

Cart_add_item_Append(items, product, variation, quantity) ==
    Append(items, [product |-> product, product_variation |-> variation,
                   quantity |-> quantity])

(* Cart.add_item: get_or_create the line, add to the quantity of a line    *)
(* that was already there.                                                 *)
Cart_add_item(items, product, variation, quantity) ==
    LET i == LineOf(items, product, variation)
    IN  IF i = 0
        THEN Append(items, [product |-> product, product_variation |-> variation,
                            quantity |-> quantity])
        ELSE [items EXCEPT ![i].quantity = @ + quantity]

Cart_clear_cart_KeepsLast(items) == IF items = <<>> THEN <<>> ELSE <<items[Len(items)]>>
Cart_clear_cart(items) == <<>>

(* AddToCartSerializer: the field validators, then validate() *)
AddToCartSerializer_is_valid(data, ps, vs) ==
    /\ data.product_id \in DOMAIN ps
    /\ ps[data.product_id].is_active
    /\ data.product_variation_id # NULL =>
          /\ data.product_variation_id \in DOMAIN vs
          /\ vs[data.product_variation_id].is_active
    /\ data.quantity >= 1
    /\ IF data.product_variation_id # NULL
       THEN /\ vs[data.product_variation_id].product = data.product_id
            /\ ~(vs[data.product_variation_id].stock_quantity < data.quantity)
       ELSE ~(ps[data.product_id].stock_quantity < data.quantity)

(* CartItemCreateSerializer: the field validators, validate_quantity, then *)
(* validate()                                                              *)
CartItemCreateSerializer_is_valid_AnyQuantity(data, ps, vs) ==
    /\ data.product_id \in DOMAIN ps
    /\ data.product_variation_id # NULL => data.product_variation_id \in DOMAIN vs
    /\ data.product_variation_id # NULL =>
          vs[data.product_variation_id].product = data.product_id
    /\ ps[data.product_id].is_active
    /\ data.product_variation_id # NULL => vs[data.product_variation_id].is_active
    /\ LET available_stock == IF data.product_variation_id # NULL
                              THEN vs[data.product_variation_id].stock_quantity
                              ELSE ps[data.product_id].stock_quantity
       IN  ~(available_stock < data.quantity)
CartItemCreateSerializer_is_valid(data, ps, vs) ==
    /\ data.product_id \in DOMAIN ps
    /\ data.product_variation_id # NULL => data.product_variation_id \in DOMAIN vs
    /\ data.quantity >= 1
    /\ ~(data.quantity <= 0)
    /\ data.product_variation_id # NULL =>
          vs[data.product_variation_id].product = data.product_id
    /\ ps[data.product_id].is_active
    /\ data.product_variation_id # NULL => vs[data.product_variation_id].is_active
    /\ LET available_stock == IF data.product_variation_id # NULL
                              THEN vs[data.product_variation_id].stock_quantity
                              ELSE ps[data.product_id].stock_quantity
       IN  ~(available_stock < data.quantity)

----------------------------------------------------------------------------
(* The catalogue and the coupons the model starts from *)

Catalogue ==
    [P1 |-> [product_type |-> "simple", is_active |-> TRUE,
             price |-> Some(Money(999)), discount_type |-> "percentage",
             discount |-> 25, stock_quantity |-> 3],
     P2 |-> [product_type |-> "variable", is_active |-> TRUE,
             price |-> None, discount_type |-> NULL,
             discount |-> 0, stock_quantity |-> 1]]

CatalogueVariations ==
    [V1 |-> [product |-> "P2", is_active |-> TRUE,
             price |-> Some(Money(300)), discount_type |-> NULL,
             discount |-> 0, stock_quantity |-> 2]]

(* A coupon SAVE10, valid from time 1 to time 2 *)
Coupon(type, value, limit, per_user, minimum, active) ==
    [code |-> "SAVE10", discount_type |-> type, discount_value |-> value,
     usage_limit |-> limit, usage_limit_per_user |-> per_user,
     minimum_order_amount |-> minimum, start_date |-> 1, end_date |-> 2,
     is_active |-> active, times_used |-> 0]

CouponKinds ==
    {<<"percentage", 10>>, <<"fixed", Money(500)>>, <<"free_shipping", 0>>}

(* Coupons that differ in their limits *)
LifecycleCoupons ==
    {Coupon("fixed", Money(500), limit, per_user, 0, TRUE) :
        limit \in {None, Some(1), Some(2)}, per_user \in {1, 2}}
    \cup {Coupon("fixed", Money(500), None, 1, 0, FALSE)}

(* Coupons that differ in their discount *)
TotalsCoupons ==
    {Coupon(k[1], k[2], limit, 2, minimum, TRUE) :
        k \in CouponKinds, limit \in {None, Some(1), Some(2)},
        minimum \in {0, Money(1500)}}

----------------------------------------------------------------------------
(* Actions: one per request handler *)

(* The clock advances between requests *)
Tick ==
    /\ now' = now + 1
    /\ resp' = NoResp
    /\ UNCHANGED <<rounding, payments, sku_rows, sku_call, inflight, coupons, usages, orders, calc, products, variations, carts>>

(* POST orders: OrderViewSet.create with OrderCreateSerializer *)
PostOrder(user, data) ==
    /\ IF OrderCreateSerializer_is_valid(data, coupons, now)
       THEN LET r == OrderCreateSerializer_create(data, user, Len(orders) + 1,
                        coupons, usages, products, variations, now, rounding)
            IN  /\ orders' = Append(orders, r.order)
                /\ coupons' = r.coupons
                /\ usages' = r.usages
                /\ calc' = r.calc
                /\ resp' = Response("post_order", user, 201, Upper(data.coupon_code), 0, "")
       ELSE /\ resp' = Response("post_order", user, 400, Upper(data.coupon_code), 0,
                             "validation")
            /\ UNCHANGED <<coupons, usages, orders, calc>>
    /\ UNCHANGED <<now, rounding, payments, sku_rows, sku_call, inflight, products, variations, carts>>

(* POST coupons/validate_coupon: CouponViewSet.validate_coupon with        *)
(* CouponValidationSerializer                                              *)
CouponValidationSerializer_is_valid(data, user, cs, us, t) ==
    /\ data.code # ""
    /\ Upper(data.code) \in DOMAIN cs
    /\ LET coupon == cs[Upper(data.code)]
           order_total == IF data.order_total = None THEN 0 ELSE data.order_total[1]
       IN  /\ is_valid(coupon, t)
           /\ can_be_used_by_user(coupon, us, user, t)
           /\ ~(order_total < coupon.minimum_order_amount)

ValidateCoupon(user, data) ==
    /\ resp' = Response("validate_coupon", user,
                        IF CouponValidationSerializer_is_valid(data, user, coupons, usages, now)
                        THEN 200 ELSE 400,
                        Upper(data.code), 0, "")
    /\ UNCHANGED <<now, rounding, payments, sku_rows, sku_call, inflight, coupons, usages, orders, calc, products, variations, carts>>

(* POST cart/add_item: CartViewSet.add_item.  The response renders the     *)
(* cart, which multiplies each line's unit price by its quantity: a line   *)
(* whose product has no price raises there, after the line was written.    *)
CartRenders(items, ps, vs) ==
    \A i \in DOMAIN items : CartItem_unit_price(items[i], ps, vs) # None

AddItem(user, data) ==
    /\ IF AddToCartSerializer_is_valid(data, products, variations)
       THEN LET items == Cart_add_item(carts[user].items, data.product_id,
                                       data.product_variation_id, data.quantity)
            IN  /\ carts' = [carts EXCEPT ![user] = [exists |-> TRUE, items |-> items]]
                /\ resp' = [Response("add_item", user,
                                     IF CartRenders(items, products, variations)
                                     THEN 201 ELSE 500, "", data.quantity, "")
                               EXCEPT !.request = data]
       ELSE /\ resp' = [Response("add_item", user, 400, "", data.quantity, "validation")
                           EXCEPT !.request = data]
            /\ UNCHANGED carts
    /\ UNCHANGED <<now, rounding, payments, sku_rows, sku_call, inflight, coupons, usages, orders, calc, products, variations>>

(* POST cart-items: CartItemViewSet.create and perform_create *)
CartItemViewSet_perform_create(items, product, variation, quantity) ==
    LET i == LineOf(items, product, variation)
    IN  IF i # 0
        THEN [items EXCEPT ![i].quantity = @ + quantity]
        ELSE Append(items, [product |-> product, product_variation |-> variation,
                            quantity |-> quantity])

PostCartItem(user, data) ==
    /\ IF CartItemCreateSerializer_is_valid(data, products, variations)
       THEN /\ carts' = [carts EXCEPT ![user] =
                           [exists |-> TRUE,
                            items |-> CartItemViewSet_perform_create(
                                          carts[user].items, data.product_id,
                                          data.product_variation_id, data.quantity)]]
            /\ resp' = [Response("post_cart_item", user, 201, "", data.quantity, "")
                           EXCEPT !.request = data]
       ELSE /\ resp' = [Response("post_cart_item", user, 400, "", data.quantity,
                                 "validation") EXCEPT !.request = data]
            /\ UNCHANGED carts
    /\ UNCHANGED <<now, rounding, payments, sku_rows, sku_call, inflight, coupons, usages, orders, calc, products, variations>>

(* POST cart/clear: CartViewSet.clear (get_object creates the cart) *)
ClearCart(user) ==
    /\ carts' = [carts EXCEPT ![user] =
                    [exists |-> TRUE, items |-> Cart_clear_cart(carts[user].items)]]
    /\ resp' = Response("clear", user, 200, "", 0, "")
    /\ UNCHANGED <<now, rounding, payments, sku_rows, sku_call, inflight, coupons, usages, orders, calc, products, variations>>

(* PATCH products/<id> and PATCH variations/<id> by a staff user: the      *)
(* fields of the request are written to the row.                           *)
ProductUpdate(id, field, value) ==
    /\ products' = [products EXCEPT ![id] = [@ EXCEPT ![field] = value]]
    /\ resp' = NoResp
    /\ UNCHANGED <<now, rounding, payments, sku_rows, sku_call, inflight, coupons, usages, orders, calc, variations, carts>>

VariationUpdate(id, field, value) ==
    /\ variations' = [variations EXCEPT ![id] = [@ EXCEPT ![field] = value]]
    /\ resp' = NoResp
    /\ UNCHANGED <<now, rounding, payments, sku_rows, sku_call, inflight, coupons, usages, orders, calc, products, carts>>

----------------------------------------------------------------------------
(* POST orders/create_from_cart: OrderViewSet.create_from_cart *)

(* The first required shipping field the request lacks, "" when none *)
RECURSIVE FirstMissing(_, _)
FirstMissing(required, fields) ==
    IF required = <<>> THEN ""
    ELSE IF Head(required) \notin fields THEN Head(required)
         ELSE FirstMissing(Tail(required), fields)

(* The item data built from one cart line *)
CartItemData(ci, ps, vs) ==
    LET discounted_price ==
            IF ci.product_variation # NULL
            THEN ProductVariation_discounted_price(vs[ci.product_variation])
            ELSE Product_discounted_price(ps[ci.product])
        cart_price == CartItem_unit_price(ci, ps, vs)
        unit_price == IF discounted_price # 0 /\ discounted_price < cart_price[1]
                      THEN Some(discounted_price) ELSE cart_price
    IN  [product |-> ci.product, product_variation |-> ci.product_variation,
         quantity |-> ci.quantity,
         \* Decimal(unit_price).quantize(Decimal('0.01')), kept as it is on failure
         unit_price |-> IF unit_price = None THEN None
                        ELSE Some(Quantize(unit_price[1], "ROUND_HALF_EVEN"))]

CartItemsData(items, ps, vs) ==
    [i \in DOMAIN items |-> CartItemData(items[i], ps, vs)]

(* An error return of create_from_cart: nothing was written *)
create_from_cart_ErrorCartCleared(user, data, status, error) ==
    /\ resp' = Response("create_from_cart", user, status, Upper(data.coupon_code), 0, error)
    /\ carts' = [carts EXCEPT ![user].items = <<>>]
    /\ UNCHANGED <<coupons, usages, orders, calc>>
create_from_cart_Error(user, data, status, error) ==
    /\ resp' = Response("create_from_cart", user, status, Upper(data.coupon_code), 0, error)
    /\ UNCHANGED <<coupons, usages, orders, calc, carts>>

CreateFromCart(user, data) ==
    /\ LET cart == carts[user]
           missing == FirstMissing(RequiredShippingFields, data.fields)
           order_data == [data EXCEPT !.fields = data.fields \cap AllShippingFields]
                         @@ [items |-> CartItemsData(cart.items, products, variations)]
       IN  IF ~cart.exists THEN create_from_cart_Error(user, data, 404, "no_cart")
           ELSE IF cart.items = <<>>
                THEN create_from_cart_Error(user, data, 400, "empty_cart")
           ELSE IF missing # ""
                THEN create_from_cart_Error(user, data, 400, "missing_field")
           ELSE IF \E i \in DOMAIN cart.items :
                      ~CartItem_is_available(cart.items[i], products, variations)
                THEN create_from_cart_Error(user, data, 400, "unavailable")
           ELSE IF ~OrderCreateSerializer_is_valid(order_data, coupons, now)
                THEN create_from_cart_Error(user, data, 400, "validation")
           ELSE LET r == OrderCreateSerializer_create(order_data, user, Len(orders) + 1,
                            coupons, usages, products, variations, now, rounding)
                IN  /\ orders' = Append(orders, r.order)
                    /\ coupons' = r.coupons
                    /\ usages' = r.usages
                    /\ calc' = r.calc
                    /\ carts' = [carts EXCEPT ![user].items = Cart_clear_cart(cart.items)]
                    /\ resp' = Response("create_from_cart", user, 201,
                                        Upper(data.coupon_code), 0, "")
    /\ UNCHANGED <<now, rounding, payments, sku_rows, sku_call, inflight, products, variations>>

----------------------------------------------------------------------------
(* ensure_unique_sku(sku, model_class, exclude_id) *)

NoCall == [pc |-> "idle", original_sku |-> "", sku |-> "", counter |-> 0,
           exclude_id |-> None, checks |-> 0]

(* f"{counter:02d}": decimal digits, padded with a zero to two *)
Format02d(n) == IF n < 10 THEN "0" \o ToString(n) ELSE ToString(n)

(* model_class.objects.filter(sku=sku), without exclude_id when one is     *)
(* given, .exists()                                                        *)
SkuExists(rows, sku, exclude_id) ==
    \E r \in rows : r.sku = sku /\ (exclude_id # None => r.id # exclude_id[1])

(* The test that ends the loop *)
CounterExhausted_Later(counter) == counter > CounterLimit + 2
CounterExhausted(counter) == counter > CounterLimit

(* str(int(time.time()))[-6:] *)
Timestamps == {"000001", "731245"}

(* One pass of the while loop: the uniqueness check, then the return or    *)
(* the next candidate; sku_call.checks counts the checks made.             *)
EnsureUniqueSkuLoop ==
    /\ sku_call.pc = "loop"
    /\ IF ~SkuExists(sku_rows, sku_call.sku, sku_call.exclude_id)
       THEN sku_call' = [sku_call EXCEPT !.pc = "returned", !.checks = @ + 1]
       ELSE LET sku == sku_call.original_sku \o "-" \o Format02d(sku_call.counter)
                counter == sku_call.counter + 1
            IN  IF CounterExhausted(counter)
                THEN \E timestamp \in Timestamps :
                        sku_call' = [sku_call EXCEPT
                                        !.pc = "returned",
                                        !.sku = sku_call.original_sku \o "-" \o timestamp,
                                        !.counter = counter,
                                        !.checks = @ + 1]
                ELSE sku_call' = [sku_call EXCEPT !.sku = sku, !.counter = counter,
                                                  !.checks = @ + 1]
    /\ UNCHANGED <<now, rounding, coupons, usages, orders, calc, products, variations,
                   carts, payments, resp, sku_rows, inflight>>

----------------------------------------------------------------------------
(* The requests the model issues *)

Item(product, variation, quantity) ==
    [product |-> product, product_variation |-> variation, quantity |-> quantity,
     unit_price |-> Some(Money(100))]

OrderItemsChoices ==
    {<<Item("P1", NULL, 3)>>,
     <<Item("P2", "V1", 1)>>,
     <<Item("P1", NULL, 1), Item("P2", "V1", 2)>>}

CodeChoices == {"", "SAVE10", "save10", "NOPE"}

(* shipping_cost and tax_amount *)
ChargeChoices == {<<0, 0>>, <<Money(250), Money(16)>>}

OrderRequest(items, code, charges, method, fields) ==
    [items |-> items, coupon_code |-> code, shipping_cost |-> charges[1],
     tax_amount |-> charges[2], payment_method |-> method, fields |-> fields]

BadOrderRequests ==
    {OrderRequest(<<>>, "SAVE10", <<0, 0>>, "mpesa", AllShippingFields),
     OrderRequest(<<Item("P1", NULL, 0)>>, "SAVE10", <<0, 0>>, "mpesa", AllShippingFields),
     OrderRequest(<<[Item("P1", NULL, 1) EXCEPT !.unit_price = None]>>, "",
                  <<0, 0>>, "mpesa", AllShippingFields),
     OrderRequest(<<Item("P1", NULL, 1)>>, "", <<0, 0>>, "paypal", AllShippingFields),
     OrderRequest(<<Item("P1", NULL, 1)>>, "", <<0, 0>>, "mpesa",
                  AllShippingFields \ {"shipping_city"})}

CheckoutRequest(code, charges, method, fields) ==
    [coupon_code |-> code, shipping_cost |-> charges[1], tax_amount |-> charges[2],
     payment_method |-> method, fields |-> fields]

BadCheckoutRequests ==
    {CheckoutRequest("", <<0, 0>>, "paypal", AllShippingFields),
     CheckoutRequest("SAVE10", <<0, 0>>, "mpesa", AllShippingFields \ {"shipping_email"})}

CouponQueries ==
    {[code |-> code, order_total |-> total] :
        code \in CodeChoices, total \in {None, Some(Money(2000))}}

CartAdd(product, variation, quantity) ==
    [product_id |-> product, product_variation_id |-> variation, quantity |-> quantity]

CartLine(product, variation, quantity) ==
    [product |-> product, product_variation |-> variation, quantity |-> quantity]

RECURSIVE CartQuantity(_)
CartQuantity(items) ==
    IF items = <<>> THEN 0 ELSE Head(items).quantity + CartQuantity(Tail(items))

(* The cart holds no more than MaxCartQty pieces after the request *)
WithinCartBound(user, data) ==
    CartQuantity(carts[user].items) + Max(data.quantity, 0) <= MaxCartQty

----------------------------------------------------------------------------
(* Spec: the life of a coupon.  Two users create orders (POST orders and   *)
(* create_from_cart, each from a cart filled beforehand) and validate      *)
(* coupon codes while the clock runs through the coupon's window, for      *)
(* every coupon of LifecycleCoupons.                                       *)

LifecycleOrderRequests ==
    {OrderRequest(<<Item("P1", NULL, 3)>>, code, <<Money(250), Money(16)>>, "mpesa",
                  AllShippingFields) : code \in CodeChoices}

LifecycleCheckoutRequests ==
    {CheckoutRequest(code, <<0, 0>>, "cash_on_delivery", AllShippingFields) :
        code \in CodeChoices}

Init ==
    /\ now = 0
    /\ rounding = "ROUND_HALF_EVEN"
    /\ coupons \in {[SAVE10 |-> c] : c \in LifecycleCoupons}
    /\ usages = {}
    /\ orders = <<>>
    /\ calc = <<>>
    /\ products = Catalogue
    /\ variations = CatalogueVariations
    /\ carts = [u \in Users |-> [exists |-> TRUE,
                                 items |-> <<CartLine("P2", "V1", 1)>>]]
    /\ payments = <<>>
    /\ resp = NoResp
    /\ sku_rows = {}
    /\ sku_call = NoCall
    /\ inflight = <<>>

Next ==
    \/ now < MaxClock /\ Tick
    \/ \E user \in Users, data \in LifecycleOrderRequests :
          Len(orders) < MaxOrders /\ PostOrder(user, data)
    \/ \E user \in Users, data \in LifecycleCheckoutRequests :
          Len(orders) < MaxOrders /\ CreateFromCart(user, data)
    \/ \E user \in Users, data \in CouponQueries : ValidateCoupon(user, data)

Spec == Init /\ [][Next]_vars

----------------------------------------------------------------------------
(* SpecTotals: the amounts of an order.  One user posts orders of several  *)
(* item lists and charges while the coupon is in its window, for every     *)
(* coupon of TotalsCoupons and both rounding modes.                        *)

TotalsOrderRequests ==
    {OrderRequest(items, code, charges, "mpesa", AllShippingFields) :
        items \in OrderItemsChoices, code \in {"", "SAVE10"}, charges \in ChargeChoices}
    \cup BadOrderRequests

InitTotals ==
    /\ now = 1
    /\ rounding \in RoundingModes
    /\ coupons \in {[SAVE10 |-> c] : c \in TotalsCoupons}
    /\ usages = {}
    /\ orders = <<>>
    /\ calc = <<>>
    /\ products = Catalogue
    /\ variations = CatalogueVariations
    /\ carts = [u \in Users |-> NoCart]
    /\ payments = <<>>
    /\ resp = NoResp
    /\ sku_rows = {}
    /\ sku_call = NoCall
    /\ inflight = <<>>

NextTotals ==
    \E data \in TotalsOrderRequests :
        Len(orders) < MaxOrders /\ PostOrder("u1", data)

SpecTotals == InitTotals /\ [][NextTotals]_vars

----------------------------------------------------------------------------
(* SpecCart: a cart and its checkout.  User u1 fills and empties a cart    *)
(* (also with quantities and products that are refused) while staff switch *)
(* a product off and change a variation's stock, and both users check out. *)

CartAdds ==
    {CartAdd("P1", NULL, q) : q \in {-1, 0, 1, 2}}
    \cup {CartAdd("P2", "V1", 1), CartAdd("P2", NULL, 1), CartAdd("P1", "V1", 1),
          CartAdd("P9", NULL, 1)}

CartCheckoutRequests ==
    {CheckoutRequest(code, <<Money(250), Money(16)>>, "mpesa", AllShippingFields) :
        code \in {"", "NOPE"}}
    \cup BadCheckoutRequests

InitCart ==
    /\ now = 1
    /\ rounding = "ROUND_HALF_EVEN"
    /\ coupons = [SAVE10 |-> Coupon("percentage", 10, Some(1), 1, 0, TRUE)]
    /\ usages = {}
    /\ orders = <<>>
    /\ calc = <<>>
    /\ products = Catalogue
    /\ variations = CatalogueVariations
    /\ carts = [u \in Users |-> IF u = "u1" THEN NoCart
                                ELSE [exists |-> TRUE,
                                      items |-> <<CartLine("P1", NULL, 1)>>]]
    /\ payments = <<>>
    /\ resp = NoResp
    /\ sku_rows = {}
    /\ sku_call = NoCall
    /\ inflight = <<>>

NextCart ==
    \/ \E data \in CartAdds : WithinCartBound("u1", data) /\ AddItem("u1", data)
    \/ \E data \in CartAdds : WithinCartBound("u1", data) /\ PostCartItem("u1", data)
    \/ ClearCart("u1")
    \/ \E active \in BOOLEAN : ProductUpdate("P1", "is_active", active)
    \/ \E stock \in {0, 2} : VariationUpdate("V1", "stock_quantity", stock)
    \/ \E user \in Users, data \in CartCheckoutRequests :
          Len(orders) < MaxCheckouts /\ CreateFromCart(user, data)

SpecCart == InitCart /\ [][NextCart]_vars

----------------------------------------------------------------------------
(* SpecSku: one call of ensure_unique_sku on a generated SKU, for tables   *)
(* that hold the original and its first numbered successors, tables with   *)
(* gaps, and full tables with and without the timestamp SKU; with and      *)
(* without exclude_id.                                                     *)

GeneratedSku == "NIK-SHO-AIRM-X7Q2"

TakenRows(ks) ==
    {[id |-> k + 1,
      sku |-> IF k = 0 THEN GeneratedSku ELSE GeneratedSku \o "-" \o Format02d(k)] :
        k \in ks}

TakenChoices == {0, 1, 2, 10, 11, 100, 101, CounterLimit - 1, CounterLimit}

SkuTables ==
    {TakenRows(0 .. (n - 1)) : n \in TakenChoices}
    \cup {TakenRows({0, 2}), TakenRows(1 .. 3)}
    \cup {TakenRows(0 .. (CounterLimit - 1))
          \cup {[id |-> CounterLimit + 1, sku |-> GeneratedSku \o "-" \o timestamp]} :
             timestamp \in Timestamps}

InitSku ==
    /\ now = 0
    /\ rounding = "ROUND_HALF_EVEN"
    /\ coupons = [SAVE10 |-> Coupon("fixed", Money(500), None, 1, 0, TRUE)]
    /\ usages = {}
    /\ orders = <<>>
    /\ calc = <<>>
    /\ products = Catalogue
    /\ variations = CatalogueVariations
    /\ carts = [u \in Users |-> NoCart]
    /\ payments = <<>>
    /\ resp = [NoResp EXCEPT !.op = "ensure_unique_sku"]
    /\ sku_rows \in SkuTables
    /\ inflight = <<>>
    /\ \E exclude_id \in {None, Some(1)} :
          sku_call = [pc |-> "loop", original_sku |-> GeneratedSku, sku |-> GeneratedSku,
                      counter |-> 1, exclude_id |-> exclude_id, checks |-> 0]

NextSku == EnsureUniqueSkuLoop

SpecSku == InitSku /\ [][NextSku]_vars

----------------------------------------------------------------------------
(* Order status, and payments *)

STATUS_CHOICES ==
    {"created", "confirmed", "processing", "shipped", "delivered", "cancelled", "refunded"}

(* Order.can_be_cancelled, a method of Order *)
can_be_cancelled(order) == order.status \in {"created", "confirmed"}

(* The truth value of the attribute order.can_be_cancelled where it is     *)
(* read without being called: a bound method is an object, and true        *)
can_be_cancelled_attribute(order) == TRUE

(* OrderViewSet.get_queryset: the ids of the orders a request can reach *)
OrderViewSet_get_queryset(user, os) ==
    {i \in 1 .. Len(os) : is_staff(user) \/ os[i].user = user}

(* IsOrderOwnerOrAdmin.has_object_permission *)
IsOrderOwnerOrAdmin(user, order) == is_staff(user) \/ order.user = user

(* The request of an order, payment or product operation with its          *)
(* response: the target row, the request's data, and the orders whose      *)
(* data the response body shows                                            *)
Reply(op, user, status, target, request, shown, error) ==
    [NoResp EXCEPT !.op = op, !.user = user, !.status = status, !.target = target,
                   !.request = request, !.shown = shown, !.error = error]

(* POST orders/<id>/cancel *)
Cancel(user, id) ==
    /\ IF id \notin OrderViewSet_get_queryset(user, orders)
       THEN /\ resp' = Reply("cancel", user, 404, id, <<>>, {}, "not found")
            /\ UNCHANGED orders
       ELSE IF ~ can_be_cancelled_attribute(orders[id])
       THEN /\ resp' = Reply("cancel", user, 400, id, <<>>, {},
                             "Order cannot be cancelled in its current status")
            /\ UNCHANGED orders
       ELSE /\ orders' = [orders EXCEPT ![id].status = "cancelled"]
            /\ resp' = Reply("cancel", user, 200, id, <<>>, {}, "")
    /\ UNCHANGED <<now, rounding, payments, sku_rows, sku_call, inflight, coupons, usages, calc, products, variations, carts>>

(* POST orders/<id>/confirm, permission IsAdminUser *)
Confirm(user, id) ==
    /\ IF ~ is_staff(user)
       THEN /\ resp' = Reply("confirm", user, 403, id, <<>>, {}, "permission denied")
            /\ UNCHANGED orders
       ELSE IF id \notin OrderViewSet_get_queryset(user, orders)
       THEN /\ resp' = Reply("confirm", user, 404, id, <<>>, {}, "not found")
            /\ UNCHANGED orders
       ELSE IF orders[id].status # "created"
       THEN /\ resp' = Reply("confirm", user, 400, id, <<>>, {},
                             "Only created orders can be confirmed")
            /\ UNCHANGED orders
       ELSE /\ orders' = [orders EXCEPT ![id].status = "confirmed",
                                        ![id].confirmed_at = Some(now)]
            /\ resp' = Reply("confirm", user, 200, id, <<>>, {}, "")
    /\ UNCHANGED <<now, rounding, payments, sku_rows, sku_call, inflight, coupons, usages, calc, products, variations, carts>>

(* POST orders/<id>/ship, permission IsAdminUser; data.tracking_number is  *)
(* "" when the request carries none                                        *)
Ship(user, id, data) ==
    /\ IF ~ is_staff(user)
       THEN /\ resp' = Reply("ship", user, 403, id, data, {}, "permission denied")
            /\ UNCHANGED orders
       ELSE IF id \notin OrderViewSet_get_queryset(user, orders)
       THEN /\ resp' = Reply("ship", user, 404, id, data, {}, "not found")
            /\ UNCHANGED orders
       ELSE IF orders[id].status \notin {"confirmed", "processing"}
       THEN /\ resp' = Reply("ship", user, 400, id, data, {},
                             "Only confirmed or processing orders can be shipped")
            /\ UNCHANGED orders
       ELSE /\ orders' = [orders EXCEPT
                             ![id].status = "shipped",
                             ![id].shipped_at = Some(now),
                             ![id].tracking_number =
                                 IF data.tracking_number # "" THEN data.tracking_number
                                 ELSE @]
            /\ resp' = Reply("ship", user, 200, id, data, {}, "")
    /\ UNCHANGED <<now, rounding, payments, sku_rows, sku_call, inflight, coupons, usages, calc, products, variations, carts>>

(* GET orders: the orders of OrderViewSet.get_queryset *)
ListOrders(user) ==
    /\ resp' = Reply("list_orders", user, 200, 0, <<>>,
                     OrderViewSet_get_queryset(user, orders), "")
    /\ UNCHANGED <<now, rounding, payments, sku_rows, sku_call, inflight, coupons, usages, orders, calc, products, variations, carts>>

(* OrderUpdateSerializer.validate_status *)
allowed_transitions ==
    [created |-> {"confirmed", "cancelled"},
     confirmed |-> {"processing", "cancelled"},
     processing |-> {"shipped", "cancelled"},
     shipped |-> {"delivered"},
     delivered |-> {},
     cancelled |-> {},
     refunded |-> {}]

validate_status_AnyStatus(instance, value) == value \in STATUS_CHOICES

validate_status(instance, value) ==
    /\ value \in STATUS_CHOICES
    /\ value \in allowed_transitions[instance.status]

(* OrderUpdateSerializer.is_valid on a partial update: attrs.given names   *)
(* the fields the request carries                                          *)
OrderUpdateSerializer_is_valid(instance, attrs) ==
    /\ "status" \in attrs.given => validate_status(instance, attrs.status)
    /\ "payment_method" \in attrs.given => attrs.payment_method \in PaymentMethods

(* The timestamps OrderUpdateSerializer.update sets before the fields *)
update_timestamps_None(instance, status, t) == instance

update_timestamps(instance, status, t) ==
    IF status = "confirmed" /\ instance.confirmed_at = None
    THEN [instance EXCEPT !.confirmed_at = Some(t)]
    ELSE IF status = "shipped" /\ instance.shipped_at = None
    THEN [instance EXCEPT !.shipped_at = Some(t)]
    ELSE IF status = "delivered" /\ instance.delivered_at = None
    THEN [instance EXCEPT !.delivered_at = Some(t)]
    ELSE instance

(* OrderUpdateSerializer.update: the timestamps, then every field of the   *)
(* request is set and the row saved; the totals are not computed again     *)
OrderUpdateSerializer_update(instance, attrs, t) ==
    LET stamped == IF "status" \in attrs.given
                   THEN update_timestamps(instance, attrs.status, t)
                   ELSE instance
        Field(f) == IF f \in attrs.given THEN attrs[f] ELSE stamped[f]
    IN  [stamped EXCEPT !.status = Field("status"),
                        !.payment_method = Field("payment_method"),
                        !.shipping_cost = Field("shipping_cost"),
                        !.tax_amount = Field("tax_amount"),
                        !.tracking_number = Field("tracking_number")]

(* PATCH orders/<id>: OrderViewSet.partial_update with                     *)
(* OrderUpdateSerializer, permission IsOrderOwnerOrAdmin                   *)
OrderUpdate(user, id, attrs) ==
    /\ IF id \notin OrderViewSet_get_queryset(user, orders)
       THEN /\ resp' = Reply("order_update", user, 404, id, attrs, {}, "not found")
            /\ UNCHANGED orders
       ELSE IF ~ IsOrderOwnerOrAdmin(user, orders[id])
       THEN /\ resp' = Reply("order_update", user, 403, id, attrs, {}, "permission denied")
            /\ UNCHANGED orders
       ELSE IF ~ OrderUpdateSerializer_is_valid(orders[id], attrs)
       THEN /\ resp' = Reply("order_update", user, 400, id, attrs, {}, "validation")
            /\ UNCHANGED orders
       ELSE /\ orders' = [orders EXCEPT
                             ![id] = OrderUpdateSerializer_update(orders[id], attrs, now)]
            /\ resp' = Reply("order_update", user, 200, id, attrs, {id}, "")
    /\ UNCHANGED <<now, rounding, payments, sku_rows, sku_call, inflight, coupons, usages, calc, products, variations, carts>>

(* Payment *)
PaymentStatusChoices ==
    {"pending", "processing", "completed", "failed", "cancelled", "refunded"}

PaymentMethodChoices ==
    {"credit_card", "debit_card", "paypal", "stripe", "bank_transfer",
     "cash_on_delivery", "mobile_money"}

(* PaymentViewSet.get_queryset: the ids of the payments a request can reach *)
PaymentViewSet_get_queryset(user, pays) ==
    {p \in 1 .. Len(pays) : is_staff(user) \/ pays[p].user = user}

(* PaymentSerializer.get_order_details: the order a payment's data shows *)
get_order_details(payment) == {payment.order}

(* PaymentCreateSerializer.is_valid: the fields, then validate *)
PaymentCreateSerializer_validate_AnyAmount(data, user, os) ==
    os[data.order].user = user

PaymentCreateSerializer_validate(data, user, os) ==
    /\ os[data.order].user = user
    /\ data.amount = os[data.order].total_amount

PaymentCreateSerializer_is_valid(data, user, os) ==
    /\ data.order \in 1 .. Len(os)
    /\ data.payment_method \in PaymentMethodChoices
    /\ PaymentCreateSerializer_validate(data, user, os)

(* PaymentCreateSerializer.create *)
PaymentCreateSerializer_create(data, user) ==
    [user |-> user, order |-> data.order, payment_method |-> data.payment_method,
     amount |-> data.amount, status |-> "pending", paid_at |-> None]

(* POST payments: PaymentViewSet.create with PaymentCreateSerializer *)
PaymentCreate(user, data) ==
    /\ IF PaymentCreateSerializer_is_valid(data, user, orders)
       THEN /\ payments' = Append(payments, PaymentCreateSerializer_create(data, user))
            /\ resp' = Reply("payment_create", user, 201, Len(payments) + 1, data, {}, "")
       ELSE /\ resp' = Reply("payment_create", user, 400, 0, data, {}, "validation")
            /\ UNCHANGED payments
    /\ UNCHANGED <<now, rounding, sku_rows, sku_call, inflight, coupons, usages, orders, calc, products, variations, carts>>

(* PaymentSerializer.is_valid on a partial update: attrs.given names the   *)
(* fields the request carries                                              *)
PaymentSerializer_is_valid(attrs, os) ==
    /\ "order" \in attrs.given => attrs.order \in 1 .. Len(os)
    /\ "status" \in attrs.given => attrs.status \in PaymentStatusChoices
    /\ "amount" \in attrs.given => attrs.amount > 0

(* ModelSerializer.update with the fields of PaymentSerializer *)
PaymentSerializer_update(instance, attrs) ==
    LET Field(f) == IF f \in attrs.given THEN attrs[f] ELSE instance[f]
    IN  [instance EXCEPT !.order = Field("order"),
                         !.status = Field("status"),
                         !.amount = Field("amount")]

(* PATCH payments/<id>: PaymentViewSet.partial_update with PaymentSerializer *)
PaymentUpdate(user, id, attrs) ==
    /\ IF id \notin PaymentViewSet_get_queryset(user, payments)
       THEN /\ resp' = Reply("payment_update", user, 404, id, attrs, {}, "not found")
            /\ UNCHANGED payments
       ELSE IF ~ PaymentSerializer_is_valid(attrs, orders)
       THEN /\ resp' = Reply("payment_update", user, 400, id, attrs, {}, "validation")
            /\ UNCHANGED payments
       ELSE LET saved == PaymentSerializer_update(payments[id], attrs)
            IN  /\ payments' = [payments EXCEPT ![id] = saved]
                /\ resp' = Reply("payment_update", user, 200, id, attrs,
                                 get_order_details(saved), "")
    /\ UNCHANGED <<now, rounding, sku_rows, sku_call, inflight, coupons, usages, orders, calc, products, variations, carts>>

(* GET payments: PaymentSerializer over PaymentViewSet.get_queryset *)
ListPayments(user) ==
    /\ resp' = Reply("list_payments", user, 200, 0, <<>>,
                     UNION {get_order_details(payments[p]) :
                               p \in PaymentViewSet_get_queryset(user, payments)}, "")
    /\ UNCHANGED <<now, rounding, payments, sku_rows, sku_call, inflight, coupons, usages, orders, calc, products, variations, carts>>

(* mark_paid's change of the payment's order *)
mark_paid_order_Always(order, t) ==
    [order EXCEPT !.status = "confirmed", !.confirmed_at = Some(t)]

mark_paid_order(order, t) ==
    IF order.status = "created"
    THEN [order EXCEPT !.status = "confirmed", !.confirmed_at = Some(t)]
    ELSE order

(* POST payments/<id>/mark_paid *)
MarkPaid(user, id) ==
    /\ IF id \notin PaymentViewSet_get_queryset(user, payments)
       THEN /\ resp' = Reply("mark_paid", user, 404, id, <<>>, {}, "not found")
            /\ UNCHANGED <<payments, orders>>
       ELSE IF ~ is_staff(user) /\ payments[id].user # user
       THEN /\ resp' = Reply("mark_paid", user, 403, id, <<>>, {},
                             "You can only modify your own payments")
            /\ UNCHANGED <<payments, orders>>
       ELSE IF payments[id].status = "completed"
       THEN /\ resp' = Reply("mark_paid", user, 400, id, <<>>, {},
                             "Payment is already marked as paid")
            /\ UNCHANGED <<payments, orders>>
       ELSE /\ payments' = [payments EXCEPT ![id].status = "completed",
                                            ![id].paid_at = Some(now)]
            /\ orders' = [orders EXCEPT
                             ![payments[id].order] = mark_paid_order(@, now)]
            /\ resp' = Reply("mark_paid", user, 200, id, <<>>, {}, "")
    /\ UNCHANGED <<now, rounding, sku_rows, sku_call, inflight, coupons, usages, calc, products, variations, carts>>

----------------------------------------------------------------------------
(* SpecOrders: the life of two orders, one of each customer, as customer   *)
(* u1 and a staff user cancel, confirm, ship, update and list them and     *)
(* mark u1's payment paid.                                                 *)

Requesters == {"u1"} \cup StaffUsers

OrderUpdateRequest(given, status, shipping_cost, tax_amount) ==
    [given |-> given, status |-> status, payment_method |-> "mpesa",
     shipping_cost |-> shipping_cost, tax_amount |-> tax_amount,
     tracking_number |-> ""]

OrderUpdateRequests ==
    {OrderUpdateRequest({"status"}, s, 0, 0) : s \in STATUS_CHOICES}
    \cup {OrderUpdateRequest({"shipping_cost", "tax_amount"}, "", Money(300), Money(50))}

ShipRequests == {[tracking_number |-> "TRK1"]}

(* The orders of Init: u1 and u2 have each posted one order *)
InitialOrderRequest(quantity) ==
    OrderRequest(<<Item("P2", "V1", quantity)>>, "", <<Money(250), Money(16)>>, "mpesa",
                 AllShippingFields)

InitialOrders ==
    LET cs == [SAVE10 |-> Coupon("fixed", Money(500), None, 1, 0, TRUE)]
        first == OrderCreateSerializer_create(InitialOrderRequest(1), "u1", 1, cs, {},
                     Catalogue, CatalogueVariations, 0, "ROUND_HALF_EVEN")
        second == OrderCreateSerializer_create(InitialOrderRequest(2), "u2", 2,
                      first.coupons, first.usages, Catalogue, CatalogueVariations, 0,
                      "ROUND_HALF_EVEN")
    IN  [orders |-> <<first.order, second.order>>, coupons |-> second.coupons,
         usages |-> second.usages, calc |-> second.calc]

(* and u1 has created the payment of their order *)
InitialPayment ==
    PaymentCreateSerializer_create(
        [order |-> 1, payment_method |-> "mobile_money",
         amount |-> InitialOrders.orders[1].total_amount], "u1")

InitOrders ==
    /\ now = 0
    /\ rounding = "ROUND_HALF_EVEN"
    /\ coupons = InitialOrders.coupons
    /\ usages = InitialOrders.usages
    /\ orders = InitialOrders.orders
    /\ calc = InitialOrders.calc
    /\ products = Catalogue
    /\ variations = CatalogueVariations
    /\ carts = [u \in Users |-> NoCart]
    /\ payments = <<InitialPayment>>
    /\ resp = NoResp
    /\ sku_rows = {}
    /\ sku_call = NoCall
    /\ inflight = <<>>

NextOrders ==
    \/ \E user \in Requesters, id \in 1 .. Len(orders) : Cancel(user, id)
    \/ \E user \in Requesters, id \in 1 .. Len(orders) : Confirm(user, id)
    \/ \E user \in Requesters, id \in 1 .. Len(orders), data \in ShipRequests :
          Ship(user, id, data)
    \/ \E user \in Requesters, id \in 1 .. Len(orders), attrs \in OrderUpdateRequests :
          OrderUpdate(user, id, attrs)
    \/ \E user \in Requesters : ListOrders(user)
    \/ \E user \in Requesters, id \in 1 .. Len(payments) : MarkPaid(user, id)

SpecOrders == InitOrders /\ [][NextOrders]_vars

----------------------------------------------------------------------------
(* SpecPayments: the payments of the same two orders.  Customer u1 and a   *)
(* staff user create, update, list and mark paid payments while the        *)
(* orders are confirmed, updated and listed.                               *)

MaxPayments == 1

PaymentOrderUpdateRequests ==
    {OrderUpdateRequest({"status"}, s, 0, 0) : s \in {"confirmed", "cancelled"}}

PaymentCreateRequests ==
    {[order |-> o, payment_method |-> "mobile_money", amount |-> a] :
        o \in 1 .. (Len(orders) + 1),
        a \in {orders[i].total_amount : i \in 1 .. Len(orders)}}

PaymentUpdateRequest(given, order, status) ==
    [given |-> given, order |-> order, status |-> status, amount |-> 0]

PaymentUpdateRequests ==
    {PaymentUpdateRequest({"order"}, o, "") : o \in 1 .. (Len(orders) + 1)}
    \cup {PaymentUpdateRequest({"status"}, 0, s) : s \in {"failed", "completed"}}

InitPayments ==
    /\ now = 0
    /\ rounding = "ROUND_HALF_EVEN"
    /\ coupons = InitialOrders.coupons
    /\ usages = InitialOrders.usages
    /\ orders = InitialOrders.orders
    /\ calc = InitialOrders.calc
    /\ products = Catalogue
    /\ variations = CatalogueVariations
    /\ carts = [u \in Users |-> NoCart]
    /\ payments = <<>>
    /\ resp = NoResp
    /\ sku_rows = {}
    /\ sku_call = NoCall
    /\ inflight = <<>>

NextPayments ==
    \/ \E user \in Requesters, id \in 1 .. Len(orders) : Confirm(user, id)
    \/ \E user \in Requesters, id \in 1 .. Len(orders),
          attrs \in PaymentOrderUpdateRequests : OrderUpdate(user, id, attrs)
    \/ \E user \in Requesters : ListOrders(user)
    \/ \E user \in Requesters, data \in PaymentCreateRequests :
          Len(payments) < MaxPayments /\ PaymentCreate(user, data)
    \/ \E user \in Requesters, id \in 1 .. Len(payments), attrs \in PaymentUpdateRequests :
          PaymentUpdate(user, id, attrs)
    \/ \E user \in Requesters : ListPayments(user)
    \/ \E user \in Requesters, id \in 1 .. Len(payments) : MarkPaid(user, id)

SpecPayments == InitPayments /\ [][NextPayments]_vars

----------------------------------------------------------------------------
(* ProductCreateUpdateSerializer.  A request's data names in data.given    *)
(* the fields it carries; price is None for null; discount is a whole      *)
(* number, of percent or of currency units as discount_type says.          *)

DISCOUNT_TYPE_CHOICES == {"percentage", "fixed"}

(* attrs.get(field): None, here the default, when the request has none *)
AttrsGet(attrs, field, default) ==
    IF field \in attrs.given THEN attrs[field] ELSE default

(* The fields' own validators: validate_price, validate_discount, the      *)
(* choices, and the fields a create or full update requires                *)
ProductFieldsValid(attrs, partial) ==
    /\ ("price" \in attrs.given /\ attrs.price # None) => attrs.price[1] >= 0
    /\ "discount" \in attrs.given => attrs.discount >= 0
    /\ "discount_type" \in attrs.given =>
          attrs.discount_type \in DISCOUNT_TYPE_CHOICES \cup {NULL}
    /\ "stock_quantity" \in attrs.given => attrs.stock_quantity >= 0
    /\ ~ partial => {"name", "category"} \subseteq attrs.given

(* ProductCreateUpdateSerializer.validate; instance is None on create *)
ProductCreateUpdateSerializer_validate(attrs, instance, partial) ==
    LET discount_type == AttrsGet(attrs, "discount_type", NULL)
        discount == AttrsGet(attrs, "discount", 0)
        price == AttrsGet(attrs, "price", None)
        product_type ==
            IF instance # None /\ partial
            THEN AttrsGet(attrs, "product_type", instance[1].product_type)
            ELSE AttrsGet(attrs, "product_type", "simple")
    IN  /\ (product_type = "simple" /\ ~ (instance # None /\ partial)) =>
              /\ ~ (price = None /\ (instance = None \/ instance[1].price = None))
              /\ ~ ("stock_quantity" \notin attrs.given /\ instance = None)
        /\ ~ (discount > 0 /\ discount_type = NULL)
        /\ ~ (discount_type = "percentage" /\ discount > 100)
        /\ ~ (/\ discount_type = "fixed"
              /\ discount # 0
              /\ price # None
              /\ price # Some(0)
              /\ Money(100 * discount) >= price[1])

ProductCreateUpdateSerializer_is_valid(attrs, instance, partial) ==
    /\ ProductFieldsValid(attrs, partial)
    /\ ProductCreateUpdateSerializer_validate(attrs, instance, partial)

(* ProductCreateUpdateSerializer.create: the model's defaults for the      *)
(* fields the request does not carry                                       *)
ProductCreateUpdateSerializer_create(attrs) ==
    [product_type |-> AttrsGet(attrs, "product_type", "simple"),
     is_active |-> AttrsGet(attrs, "is_active", TRUE),
     price |-> AttrsGet(attrs, "price", None),
     discount_type |-> AttrsGet(attrs, "discount_type", NULL),
     discount |-> AttrsGet(attrs, "discount", 0),
     stock_quantity |-> AttrsGet(attrs, "stock_quantity", 0)]

(* ProductCreateUpdateSerializer.update: every field of the request is set *)
ProductCreateUpdateSerializer_update(instance, attrs) ==
    [f \in DOMAIN instance |-> AttrsGet(attrs, f, instance[f])]

(* The ids of new products, in the order they are given out *)
NewProductIds == <<"P1", "P2", "P3">>

(* POST products, by a staff user *)
ProductCreate(user, data) ==
    /\ IF ~ is_staff(user)
       THEN /\ resp' = Response("product_create", user, 403, "", 0, "permission denied")
            /\ UNCHANGED products
       ELSE IF ~ ProductCreateUpdateSerializer_is_valid(data, None, FALSE)
       THEN /\ resp' = Response("product_create", user, 400, "", 0, "validation")
            /\ UNCHANGED products
       ELSE LET id == NewProductIds[Cardinality(DOMAIN products) + 1]
            IN  /\ products' = [i \in DOMAIN products \cup {id} |->
                                   IF i = id
                                   THEN ProductCreateUpdateSerializer_create(data)
                                   ELSE products[i]]
                /\ resp' = Response("product_create", user, 201, id, 0, "")
    /\ UNCHANGED <<now, rounding, payments, sku_rows, sku_call, inflight, coupons, usages, orders, calc, variations, carts>>

(* PUT products/<id> (partial FALSE) and PATCH products/<id> (partial      *)
(* TRUE), by a staff user                                                  *)
ProductSerializerUpdate(op, user, id, data, partial) ==
    /\ IF ~ is_staff(user)
       THEN /\ resp' = Response(op, user, 403, id, 0, "permission denied")
            /\ UNCHANGED products
       ELSE IF ~ ProductCreateUpdateSerializer_is_valid(data, Some(products[id]), partial)
       THEN /\ resp' = Response(op, user, 400, id, 0, "validation")
            /\ UNCHANGED products
       ELSE /\ products' = [products EXCEPT
                               ![id] = ProductCreateUpdateSerializer_update(@, data)]
            /\ resp' = Response(op, user, 200, id, 0, "")
    /\ UNCHANGED <<now, rounding, payments, sku_rows, sku_call, inflight, coupons, usages, orders, calc, variations, carts>>

ProductFullUpdate(user, id, data) ==
    ProductSerializerUpdate("product_update", user, id, data, FALSE)

ProductPartialUpdate(user, id, data) ==
    ProductSerializerUpdate("product_partial_update", user, id, data, TRUE)

----------------------------------------------------------------------------
(* SpecProducts: a staff user (and a customer, who is refused) creates a   *)
(* product and updates it in full and in part, with and without price,     *)
(* discount and discount_type, for prices below zero, zero and above, and  *)
(* discounts of 0, 5 and 150.                                              *)

MaxProducts == 1

ProductData(given, price, discount, discount_type) ==
    [given |-> given, name |-> "name", category |-> "category", product_type |-> "simple",
     is_active |-> TRUE, price |-> price, discount |-> discount,
     discount_type |-> discount_type, stock_quantity |-> 3]

PriceChoices == {None, Some(0), Some(Money(1000)), Some(0 - Money(500))}

DiscountChoices == {0, 5, 150}

ProductRequests(always) ==
    {ProductData(always \cup given,
                 IF "price" \in given THEN price ELSE None,
                 IF "discount" \in given THEN discount ELSE 0,
                 IF "discount_type" \in given THEN discount_type ELSE NULL) :
        given \in SUBSET {"price", "discount", "discount_type"},
        price \in PriceChoices, discount \in DiscountChoices,
        discount_type \in DISCOUNT_TYPE_CHOICES \cup {NULL}}

ProductCreateRequests ==
    ProductRequests({"name", "category", "stock_quantity"})
    \cup {ProductData({"price"}, Some(Money(1000)), 0, NULL)}

InitProducts ==
    /\ now = 0
    /\ rounding = "ROUND_HALF_EVEN"
    /\ coupons = [SAVE10 |-> Coupon("fixed", Money(500), None, 1, 0, TRUE)]
    /\ usages = {}
    /\ orders = <<>>
    /\ calc = <<>>
    /\ products = [i \in {} |-> 0]
    /\ variations = CatalogueVariations
    /\ carts = [u \in Users |-> NoCart]
    /\ payments = <<>>
    /\ resp = NoResp
    /\ sku_rows = {}
    /\ sku_call = NoCall
    /\ inflight = <<>>

NextProducts ==
    \/ \E user \in Requesters, data \in ProductCreateRequests :
          Cardinality(DOMAIN products) < MaxProducts /\ ProductCreate(user, data)
    \/ \E user \in Requesters, id \in DOMAIN products,
          data \in ProductRequests({"name", "category"}) :
             ProductFullUpdate(user, id, data)
    \/ \E user \in Requesters, id \in DOMAIN products, data \in ProductRequests({}) :
          ProductPartialUpdate(user, id, data)

SpecProducts == InitProducts /\ [][NextProducts]_vars

----------------------------------------------------------------------------
(* Cart lines: update and remove.  The id of a cart item is its place in   *)
(* the cart.                                                               *)

RemoveAt(items, i) ==
    [k \in 1 .. (Len(items) - 1) |-> IF k < i THEN items[k] ELSE items[k + 1]]

(* Cart.remove_item *)
Cart_remove_item(items, product, variation) ==
    LET i == LineOf(items, product, variation)
    IN  IF i = 0 THEN items ELSE RemoveAt(items, i)

(* Cart.update_item_quantity *)
Cart_update_item_quantity(items, product, variation, quantity) ==
    LET i == LineOf(items, product, variation)
    IN  IF i = 0 THEN items
        ELSE IF quantity <= 0 THEN RemoveAt(items, i)
        ELSE [items EXCEPT ![i].quantity = quantity]

(* get_object_or_404 of the product and, when the request names one, of    *)
(* the variation                                                           *)
CartTargetFound(data, ps, vs) ==
    /\ data.product_id \in DOMAIN ps
    /\ data.product_variation_id # NULL => data.product_variation_id \in DOMAIN vs

(* POST cart/remove_item: CartViewSet.remove_item; get_object creates the  *)
(* cart before the product is looked up                                    *)
RemoveItem(user, data) ==
    /\ IF data.product_id = NULL
       THEN /\ resp' = [Response("remove_item", user, 400, "", 0,
                                 "product_id is required") EXCEPT !.request = data]
            /\ UNCHANGED carts
       ELSE IF ~ CartTargetFound(data, products, variations)
       THEN /\ resp' = [Response("remove_item", user, 404, "", 0, "not found")
                           EXCEPT !.request = data]
            /\ carts' = [carts EXCEPT ![user].exists = TRUE]
       ELSE LET i == LineOf(carts[user].items, data.product_id,
                            data.product_variation_id)
            IN  /\ carts' = [carts EXCEPT ![user] =
                                [exists |-> TRUE,
                                 items |-> Cart_remove_item(carts[user].items,
                                               data.product_id,
                                               data.product_variation_id)]]
                /\ resp' = [Response("remove_item", user, IF i = 0 THEN 404 ELSE 200, "",
                                     0, IF i = 0 THEN "Item not found in cart" ELSE "")
                               EXCEPT !.request = data]
    /\ UNCHANGED <<now, rounding, payments, sku_rows, sku_call, inflight, coupons, usages, orders, calc, products, variations>>

(* POST cart/update_item: CartViewSet.update_item *)
UpdateItem(user, data) ==
    /\ IF data.product_id = NULL
       THEN /\ resp' = [Response("update_item", user, 400, "", data.quantity,
                                 "product_id and quantity are required")
                           EXCEPT !.request = data]
            /\ UNCHANGED carts
       ELSE IF data.quantity < 0
       THEN /\ resp' = [Response("update_item", user, 400, "", data.quantity,
                                 "Quantity must be non-negative")
                           EXCEPT !.request = data]
            /\ UNCHANGED carts
       ELSE IF ~ CartTargetFound(data, products, variations)
       THEN /\ resp' = [Response("update_item", user, 404, "", data.quantity, "not found")
                           EXCEPT !.request = data]
            /\ carts' = [carts EXCEPT ![user].exists = TRUE]
       ELSE LET items == Cart_update_item_quantity(carts[user].items, data.product_id,
                             data.product_variation_id, data.quantity)
            IN  /\ carts' = [carts EXCEPT ![user] = [exists |-> TRUE, items |-> items]]
                /\ resp' = [Response("update_item", user,
                                     IF CartRenders(items, products, variations)
                                     THEN 200 ELSE 500, "", data.quantity, "")
                               EXCEPT !.request = data]
    /\ UNCHANGED <<now, rounding, payments, sku_rows, sku_call, inflight, coupons, usages, orders, calc, products, variations>>

(* CartItemViewSet.get_queryset: the ids of the user's cart items *)
CartItemViewSet_get_queryset(user, cs) ==
    IF cs[user].exists THEN DOMAIN cs[user].items ELSE {}

(* CartItemUpdateSerializer: the quantity's validators, then validate() *)
CartItemUpdateSerializer_is_valid(instance, data, ps, vs) ==
    /\ data.quantity >= 1
    /\ ~(data.quantity <= 0)
    /\ LET available_stock == IF instance.product_variation # NULL
                              THEN vs[instance.product_variation].stock_quantity
                              ELSE ps[instance.product].stock_quantity
       IN  ~(available_stock < data.quantity)

(* PATCH cart-items/<id>: CartItemViewSet.partial_update, perform_update *)
CartItemUpdate(user, id, data) ==
    /\ IF id \notin CartItemViewSet_get_queryset(user, carts)
       THEN /\ resp' = [Response("cart_item_update", user, 404, "", data.quantity,
                                 "not found") EXCEPT !.target = id]
            /\ UNCHANGED carts
       ELSE IF ~ CartItemUpdateSerializer_is_valid(carts[user].items[id], data, products,
                                                   variations)
       THEN /\ resp' = [Response("cart_item_update", user, 400, "", data.quantity,
                                 "validation") EXCEPT !.target = id]
            /\ UNCHANGED carts
       ELSE /\ carts' = [carts EXCEPT ![user].items[id].quantity = data.quantity]
            /\ resp' = [Response("cart_item_update", user, 200, "", data.quantity, "")
                           EXCEPT !.target = id]
    /\ UNCHANGED <<now, rounding, payments, sku_rows, sku_call, inflight, coupons, usages, orders, calc, products, variations>>

(* DELETE cart-items/<id>: CartItemViewSet.destroy, perform_destroy *)
CartItemDestroy(user, id) ==
    /\ IF id \notin CartItemViewSet_get_queryset(user, carts)
       THEN /\ resp' = [Response("cart_item_destroy", user, 404, "", 0, "not found")
                           EXCEPT !.target = id]
            /\ UNCHANGED carts
       ELSE /\ carts' = [carts EXCEPT ![user].items = RemoveAt(@, id)]
            /\ resp' = [Response("cart_item_destroy", user, 204, "", 0, "")
                           EXCEPT !.target = id]
    /\ UNCHANGED <<now, rounding, payments, sku_rows, sku_call, inflight, coupons, usages, orders, calc, products, variations>>

----------------------------------------------------------------------------
(* SpecCartItems: the lines of u1's cart.  u1 adds (by both endpoints),    *)
(* updates and removes lines of three (product, variation) pairs while     *)
(* staff change the stock of a variation.                                  *)

MaxCartPieces == 3

CartItemAdds ==
    {CartAdd("P1", NULL, q) : q \in {1, 2}}
    \cup {CartAdd("P2", "V1", q) : q \in {1, 2}}
    \cup {CartAdd("P2", NULL, 1), CartAdd("P9", NULL, 1)}

CartItemTargets ==
    {CartAdd("P1", NULL, q) : q \in {-1, 0, 1, 2}}
    \cup {CartAdd("P2", "V1", 1), CartAdd("P9", NULL, 1), CartAdd(NULL, NULL, 1)}

CartItemQuantities == {[quantity |-> q] : q \in {0, 1, 2, 4}}

AddWithinPieces(user, data) ==
    CartQuantity(carts[user].items) + data.quantity <= MaxCartPieces

InitCartItems ==
    /\ now = 1
    /\ rounding = "ROUND_HALF_EVEN"
    /\ coupons = [SAVE10 |-> Coupon("percentage", 10, Some(1), 1, 0, TRUE)]
    /\ usages = {}
    /\ orders = <<>>
    /\ calc = <<>>
    /\ products = Catalogue
    /\ variations = CatalogueVariations
    /\ carts = [u \in Users |-> NoCart]
    /\ payments = <<>>
    /\ resp = NoResp
    /\ sku_rows = {}
    /\ sku_call = NoCall
    /\ inflight = <<>>

NextCartItems ==
    \/ \E data \in CartItemAdds : AddWithinPieces("u1", data) /\ AddItem("u1", data)
    \/ \E data \in CartItemAdds : AddWithinPieces("u1", data) /\ PostCartItem("u1", data)
    \/ \E data \in CartItemTargets : RemoveItem("u1", data)
    \/ \E data \in CartItemTargets : UpdateItem("u1", data)
    \/ \E id \in 1 .. MaxCartPieces, data \in CartItemQuantities :
          CartItemUpdate("u1", id, data)
    \/ \E id \in 1 .. MaxCartPieces : CartItemDestroy("u1", id)
    \/ \E stock \in {1, 2} : VariationUpdate("V1", "stock_quantity", stock)

SpecCartItems == InitCartItems /\ [][NextCartItems]_vars

----------------------------------------------------------------------------
(* Concurrent order creation.  The application takes no lock and opens no  *)
(* transaction around OrderCreateSerializer: each request is served by its *)
(* own worker and each ORM call of create() is its own database statement, *)
(* so the statements of different requests interleave.  inflight[r] holds  *)
(* the locals of request r: where it stands, the request's user and data,  *)
(* the Coupon object validate_coupon_code returned (the row as it was read *)
(* then), and the id of the order it created.                              *)

MaxRequests == 2

NoRequest ==
    [pc |-> "idle", user |-> NULL, data |-> <<>>, coupon |-> None, order |-> 0]

(* serializer.is_valid(): validate_coupon_code reads the Coupon row,       *)
(* tests is_valid and keeps the object in validated_data                   *)
IsValid(r, user, data) ==
    /\ inflight[r].pc = "idle"
    /\ IF OrderCreateSerializer_is_valid(data, coupons, now)
       THEN /\ inflight' = [inflight EXCEPT ![r] =
                              [pc |-> "create", user |-> user, data |-> data,
                               coupon |-> validate_coupon_code(data.coupon_code,
                                                               coupons, now).coupon,
                               order |-> 0]]
            /\ resp' = resp
       ELSE /\ inflight' = [inflight EXCEPT ![r] =
                              [NoRequest EXCEPT !.pc = "rejected", !.user = user,
                                                !.data = data]]
            /\ resp' = Response("post_order", user, 400, Upper(data.coupon_code), 0,
                                "validation")
    /\ UNCHANGED <<now, rounding, payments, sku_rows, sku_call, coupons, usages, orders, calc, products, variations, carts>>

(* create(): order = Order.objects.create(user=user, **validated_data) *)
OrderObjectsCreate(r) ==
    /\ inflight[r].pc = "create"
    /\ LET id == Len(orders) + 1
           data == inflight[r].data
       IN  /\ orders' = Append(orders,
                   [id |-> id, user |-> inflight[r].user, status |-> "created",
                    coupon |-> NULL, payment_method |-> data.payment_method,
                    subtotal |-> 0, shipping_cost |-> data.shipping_cost,
                    tax_amount |-> data.tax_amount, discount_amount |-> 0,
                    total_amount |-> 0,
                    confirmed_at |-> None, shipped_at |-> None,
                    delivered_at |-> None, tracking_number |-> "",
                    items |-> <<>>])
           /\ inflight' = [inflight EXCEPT ![r].pc = "check", ![r].order = id]
    /\ UNCHANGED <<now, rounding, payments, sku_rows, sku_call, coupons, usages, calc, products, variations, carts, resp>>

(* create(): if coupon: if coupon.can_be_used_by_user(user): is_valid on   *)
(* the object read by validate_coupon_code, and a count of the CouponUsage *)
(* rows as they are now                                                    *)
CanBeUsedByUser(r) ==
    /\ inflight[r].pc = "check"
    /\ inflight' = [inflight EXCEPT ![r].pc =
                      IF /\ inflight[r].coupon # None
                         /\ can_be_used_by_user(inflight[r].coupon[1], usages,
                                                inflight[r].user, now)
                      THEN "attach" ELSE "items"]
    /\ UNCHANGED <<now, rounding, payments, sku_rows, sku_call, coupons, usages, orders, calc, products, variations, carts, resp>>

(* create(): order.coupon = coupon; order.coupon_code = coupon.code;       *)
(* order.save()                                                            *)
OrderSaveCoupon(r) ==
    /\ inflight[r].pc = "attach"
    /\ orders' = [orders EXCEPT ![inflight[r].order].coupon = inflight[r].coupon[1].code]
    /\ inflight' = [inflight EXCEPT ![r].pc = "usage"]
    /\ UNCHANGED <<now, rounding, payments, sku_rows, sku_call, coupons, usages, calc, products, variations, carts, resp>>

(* create(): CouponUsage.objects.create(coupon, user, order) *)
CouponUsageCreate(r) ==
    /\ inflight[r].pc = "usage"
    /\ usages' = usages \cup {[coupon |-> inflight[r].coupon[1].code,
                               user |-> inflight[r].user, order |-> inflight[r].order]}
    /\ inflight' = [inflight EXCEPT ![r].pc = "count"]
    /\ UNCHANGED <<now, rounding, payments, sku_rows, sku_call, coupons, orders, calc, products, variations, carts, resp>>

(* create(): coupon.times_used += 1; coupon.save(): the row is written     *)
(* from the object, times_used one above the value read at validation      *)
CouponSave(r) ==
    /\ inflight[r].pc = "count"
    /\ LET coupon == [inflight[r].coupon[1] EXCEPT !.times_used = @ + 1]
       IN  /\ coupons' = [coupons EXCEPT ![coupon.code] = coupon]
           /\ inflight' = [inflight EXCEPT ![r].pc = "items", ![r].coupon = Some(coupon)]
    /\ UNCHANGED <<now, rounding, payments, sku_rows, sku_call, usages, orders, calc, products, variations, carts, resp>>

(* create(): the OrderItem rows, each saved with calculate_totals, then    *)
(* order.calculate_totals(); the response 201                              *)
CreateItems(r) ==
    /\ inflight[r].pc = "items"
    /\ LET data == inflight[r].data
           id == inflight[r].order
           attached == orders[id].coupon # NULL
           vitems == [i \in DOMAIN data.items |->
                        OrderItemCreateSerializer_validate(data.items[i], products,
                                                           variations)]
           items == [i \in DOMAIN vitems |->
                        OrderItem_save(vitems[i].product, vitems[i].product_variation,
                                       vitems[i].quantity, vitems[i].unit_price,
                                       rounding)]
           totals(k) == calculate_totals(SubSeq(items, 1, k), data.shipping_cost,
                                         data.tax_amount,
                                         IF attached THEN inflight[r].coupon ELSE None,
                                         now)
           log == [k \in 1..(Len(items) + 1) |->
                     [order |-> id] @@ totals(Min(k, Len(items)))]
           final == log[Len(log)]
       IN  /\ orders' = [orders EXCEPT
                            ![id].items = items,
                            ![id].subtotal = Quantize(final.subtotal, rounding),
                            ![id].discount_amount = Quantize(final.discount_amount,
                                                             rounding),
                            ![id].total_amount = Quantize(final.total_amount, rounding)]
           /\ calc' = log
           /\ resp' = Response("post_order", inflight[r].user, 201,
                               Upper(data.coupon_code), 0, "")
    /\ inflight' = [inflight EXCEPT ![r].pc = "done"]
    /\ UNCHANGED <<now, rounding, payments, sku_rows, sku_call, coupons, usages, products, variations, carts>>

(* SpecRace: MaxRequests requests POST orders with the coupon SAVE10, each *)
(* by u1 or by u2, and are served statement by statement in any order.     *)
(* The coupon may be used once or twice in all, and once or twice by each  *)
(* user.                                                                   *)
InitRace ==
    /\ now = 1
    /\ rounding = "ROUND_HALF_EVEN"
    /\ \E limit \in {Some(1), Some(2)}, per_user \in {1, 2} :
          coupons = [SAVE10 |-> Coupon("fixed", Money(500), limit, per_user, 0, TRUE)]
    /\ usages = {}
    /\ orders = <<>>
    /\ calc = <<>>
    /\ products = Catalogue
    /\ variations = CatalogueVariations
    /\ carts = [u \in Users |-> NoCart]
    /\ payments = <<>>
    /\ resp = NoResp
    /\ sku_rows = {}
    /\ sku_call = NoCall
    /\ inflight = [r \in 1 .. MaxRequests |-> NoRequest]

NextRace ==
    \/ \E r \in DOMAIN inflight, user \in Users :
          IsValid(r, user, OrderRequest(<<Item("P1", NULL, 1)>>, "save10", <<0, 0>>,
                                        "mpesa", AllShippingFields))
    \/ \E r \in DOMAIN inflight : OrderObjectsCreate(r)
    \/ \E r \in DOMAIN inflight : CanBeUsedByUser(r)
    \/ \E r \in DOMAIN inflight : OrderSaveCoupon(r)
    \/ \E r \in DOMAIN inflight : CouponUsageCreate(r)
    \/ \E r \in DOMAIN inflight : CouponSave(r)
    \/ \E r \in DOMAIN inflight : CreateItems(r)

SpecRace == InitRace /\ [][NextRace]_vars

----------------------------------------------------------------------------
(* Properties *)

OrderOps == {"post_order", "create_from_cart"}
CouponOps == OrderOps \cup {"validate_coupon"}

ItemAmounts(items) == [i \in DOMAIN items |-> items[i].quantity * items[i].unit_price]

(* C1: immediately after Order.calculate_totals the order's subtotal is    *)
(* the sum over its items of quantity x unit_price, and total_amount =     *)
(* subtotal + shipping_cost + tax_amount - discount_amount.                *)
C1_TotalsAfterCalculate ==
    \A k \in DOMAIN calc :
        LET o == calc[k]
            items == SubSeq(orders[o.order].items, 1, o.n_items)
        IN  /\ o.subtotal = SumSeq(ItemAmounts(items))
            /\ o.total_amount =
                   o.subtotal + o.shipping_cost + o.tax_amount - o.discount_amount

(* C2: an order created with a coupon that was valid at request time and   *)
(* that the user could still use carries, when its subtotal reaches the    *)
(* coupon's minimum_order_amount, the discount get_discount_amount gives   *)
(* for its subtotal (as its two-decimal column holds it).                  *)
C2_DiscountOfAppliedCoupon ==
    \A i \in DOMAIN orders :
        LET o == orders[i]
        IN  (o.coupon # NULL /\ o.subtotal >= coupons[o.coupon].minimum_order_amount)
            => o.discount_amount =
                   Quantize(get_discount_amount(coupons[o.coupon], o.subtotal), rounding)

(* C3: a request that names a coupon that is not valid at the time (order  *)
(* creation by POST orders or create_from_cart, or validate_coupon) is     *)
(* rejected, and creates no order and no CouponUsage and leaves the        *)
(* coupon as it was.                                                       *)
C3_InvalidCouponRejected ==
    [][(/\ resp'.op \in CouponOps
        /\ resp'.code \in DOMAIN coupons
        /\ ~is_valid(coupons[resp'.code], now))
       => (/\ resp'.status \in {400, 404}
           /\ UNCHANGED <<orders, usages, coupons>>)]_vars

C3_Witness ==
    /\ resp.op = "create_from_cart" /\ resp.status = 400 /\ resp.error = "validation"
    /\ resp.code = "SAVE10"
    /\ coupons["SAVE10"].usage_limit # None
    /\ coupons["SAVE10"].times_used >= coupons["SAVE10"].usage_limit[1]
    /\ now <= coupons["SAVE10"].end_date

(* C4: a request to create a cart item with a quantity of zero or less     *)
(* (POST cart/add_item or POST cart-items) fails with a validation error   *)
(* and leaves the cart as it was.                                          *)
C4_QuantityAtLeastOne ==
    [][(resp'.op \in {"add_item", "post_cart_item"} /\ resp'.quantity <= 0)
       => (/\ resp'.status = 400 /\ resp'.error = "validation"
           /\ UNCHANGED carts)]_vars

C4_Witness ==
    /\ resp.op = "post_cart_item" /\ resp.quantity = 0 /\ resp.status = 400
    /\ carts[resp.user].items # <<>>

(* C5: a coupon with a usage limit is never used more often than its limit *)
C5_UsageLimit ==
    \A code \in DOMAIN coupons :
        coupons[code].usage_limit # None
        => coupons[code].times_used <= coupons[code].usage_limit[1]

C5_Witness ==
    /\ coupons["SAVE10"].usage_limit = Some(2)
    /\ coupons["SAVE10"].times_used = 2
    /\ Len(orders) = 2

(* C6: no user has more CouponUsage records of a coupon than its           *)
(* usage_limit_per_user                                                    *)
C6_UsageLimitPerUser ==
    \A code \in DOMAIN coupons : \A user \in Users :
        user_usage(usages, code, user) <= coupons[code].usage_limit_per_user

C6_Witness ==
    \E i \in DOMAIN orders :
        /\ i > 1
        /\ orders[i].coupon = NULL
        /\ resp.op \in OrderOps /\ resp.status = 201 /\ resp.code = "SAVE10"
        /\ resp.user = orders[i].user
        /\ i = Len(orders)
        /\ is_valid(coupons["SAVE10"], now)
        /\ user_usage(usages, "SAVE10", orders[i].user)
              = coupons["SAVE10"].usage_limit_per_user

(* The cart line and the order item name the same product and variation    *)
(* in the same quantity                                                    *)
SameLine(ci, oi) ==
    /\ oi.product = ci.product
    /\ oi.product_variation = ci.product_variation
    /\ oi.quantity = ci.quantity

(* C9: when create_from_cart succeeds, exactly one order was added, it is  *)
(* the requesting user's, its items match the lines the cart held one for  *)
(* one (product, variation, quantity), and the cart is empty.              *)
C9_CheckoutMovesCart ==
    [][(resp'.op = "create_from_cart" /\ resp'.status = 201)
       => LET user == resp'.user
              lines == carts[user].items
              new == orders'[Len(orders')]
          IN  /\ Len(orders') = Len(orders) + 1
              /\ SubSeq(orders', 1, Len(orders)) = orders
              /\ new.user = user
              /\ Len(new.items) = Len(lines)
              /\ \A i \in DOMAIN lines : SameLine(lines[i], new.items[i])
              /\ carts'[user].items = <<>>
              /\ \A other \in Users \ {user} : carts'[other] = carts[other]]_vars

C9_Witness ==
    /\ resp.op = "create_from_cart" /\ resp.status = 201 /\ resp.user = "u1"
    /\ orders # <<>>
    /\ Len(orders[Len(orders)].items) = 2
    /\ carts["u1"].items = <<>>

(* C10: when create_from_cart answers with an error (no cart, empty cart,  *)
(* missing shipping field, unavailable item, serializer validation         *)
(* failure), no order or order item was created and the carts are as they  *)
(* were.                                                                   *)
C10_FailedCheckoutChangesNothing ==
    [][(resp'.op = "create_from_cart" /\ resp'.status # 201)
       => (/\ resp'.status \in {400, 404}
           /\ UNCHANGED <<orders, carts, usages, coupons>>)]_vars

C10_Witness ==
    /\ resp.op = "create_from_cart" /\ resp.error = "unavailable"
    /\ Len(carts[resp.user].items) = 2
    /\ orders = <<>>

(* C7: the SKU ensure_unique_sku returns is held by no record of the model *)
(* class other than the excluded one                                       *)
C7_ReturnedSkuUnused ==
    sku_call.pc = "returned"
    => ~\E r \in sku_rows :
           /\ r.sku = sku_call.sku
           /\ (sku_call.exclude_id = None \/ r.id # sku_call.exclude_id[1])

Digits == <<"0", "1", "2", "3", "4", "5", "6", "7", "8", "9">>

(* The k-th candidate: the original, then the original with -01, -02, ...  *)
NumberedSku(original, k) ==
    IF k = 0 THEN original
    ELSE IF k < 100
         THEN original \o "-" \o Digits[(k \div 10) + 1] \o Digits[(k % 10) + 1]
         ELSE original \o "-" \o Digits[(k \div 100) + 1]
                  \o Digits[((k \div 10) % 10) + 1] \o Digits[(k % 10) + 1]

UnusedNumbers ==
    {k \in 0 .. (CounterLimit - 1) :
        ~\E r \in sku_rows :
            /\ r.sku = NumberedSku(sku_call.original_sku, k)
            /\ (sku_call.exclude_id = None \/ r.id # sku_call.exclude_id[1])}

(* C8: ensure_unique_sku makes at most 999 uniqueness checks; the checks   *)
(* try the original first and then the original with -01, -02, ... in      *)
(* increasing order; and it returns the first candidate it finds unused.   *)
C8_BoundedRetry ==
    /\ sku_call.checks <= 999
    /\ sku_call.pc = "loop"
       => sku_call.sku = NumberedSku(sku_call.original_sku, sku_call.checks)
    /\ (sku_call.pc = "returned" /\ UnusedNumbers # {})
       => LET first == CHOOSE k \in UnusedNumbers : \A j \in UnusedNumbers : k <= j
          IN  /\ sku_call.sku = NumberedSku(sku_call.original_sku, first)
              /\ sku_call.checks = first + 1

C8_Witness ==
    /\ sku_call.pc = "returned"
    /\ sku_call.checks = 999
    /\ sku_call.sku = "NIK-SHO-AIRM-X7Q2-998"
    /\ Cardinality(sku_rows) = 998

----------------------------------------------------------------------------
(* Properties of the order status *)

(* C11: a cancel request that reaches an order sets its status to          *)
(* 'cancelled' only if the status is 'created' or 'confirmed'; the status  *)
(* of an order in any other status is unchanged.                           *)
C11_CancelOnlyCreatedOrConfirmed ==
    [][(resp'.op = "cancel" /\ resp'.status # 404) =>
          LET id == resp'.target
          IN  IF orders[id].status \in {"created", "confirmed"}
              THEN orders'[id].status = "cancelled"
              ELSE orders'[id].status = orders[id].status]_vars

(* The part of C11 that the code keeps: a created or confirmed order is    *)
(* cancelled by the request that reaches it                                *)
CancelOfCreatedOrConfirmed ==
    [][(resp'.op = "cancel" /\ resp'.status # 404
        /\ orders[resp'.target].status \in {"created", "confirmed"}) =>
          (resp'.status = 200 /\ orders'[resp'.target].status = "cancelled")]_vars

(* The status transitions of an order update, pair by pair *)
UpdateTransitions ==
    {<<"created", "confirmed">>, <<"created", "cancelled">>,
     <<"confirmed", "processing">>, <<"confirmed", "cancelled">>,
     <<"processing", "shipped">>, <<"processing", "cancelled">>,
     <<"shipped", "delivered">>}

(* C12: an order update that names a status changes the order's status     *)
(* only along created -> confirmed or cancelled, confirmed -> processing   *)
(* or cancelled, processing -> shipped or cancelled, shipped -> delivered, *)
(* and then to the status named; a request naming any other status, the    *)
(* current one included, is rejected and leaves every order unchanged.     *)
C12_UpdateFollowsTransitions ==
    [][(resp'.op = "order_update" /\ "status" \in resp'.request.given) =>
          LET id == resp'.target
              value == resp'.request.status
          IN  /\ \A i \in DOMAIN orders :
                    orders'[i].status # orders[i].status =>
                        /\ i = id
                        /\ orders'[i].status = value
                        /\ <<orders[i].status, value>> \in UpdateTransitions
              /\ <<orders[id].status, value>> \notin UpdateTransitions =>
                    (resp'.status \in {400, 403, 404} /\ orders' = orders)]_vars

(* C12 happens: a shipped order was updated to delivered *)
C12_Witness ==
    /\ resp.op = "order_update"
    /\ resp.status = 200
    /\ resp.request.given = {"status"}
    /\ resp.request.status = "delivered"
    /\ orders[resp.target].status = "delivered"

(* C17: in every state every stored order's total_amount is the sum of its *)
(* items' subtotals plus shipping_cost plus tax_amount minus               *)
(* discount_amount.                                                        *)
C17_TotalOfStoredOrder ==
    \A i \in DOMAIN orders :
        LET o == orders[i]
        IN  o.total_amount =
                SumSeq(ItemSubtotals(o.items)) + o.shipping_cost + o.tax_amount
                    - o.discount_amount

(* The total of every order is what it was when the order was created *)
TotalAmountNeverChanges ==
    [][\A i \in DOMAIN orders : orders'[i].total_amount = orders[i].total_amount]_vars

(* C18: no request changes the status of an order that is delivered,       *)
(* cancelled or refunded.                                                  *)
C18_TerminalStatusStays ==
    [][\A i \in DOMAIN orders :
          orders[i].status \in {"delivered", "cancelled", "refunded"} =>
              orders'[i].status = orders[i].status]_vars

(* What the code keeps of C18: only cancel changes such an order, and only *)
(* a delivered one                                                         *)
TerminalStatusChangesByCancelOnly ==
    [][\A i \in DOMAIN orders :
          (/\ orders[i].status \in {"delivered", "cancelled", "refunded"}
           /\ orders'[i].status # orders[i].status) =>
              (resp'.op = "cancel" /\ orders[i].status = "delivered")]_vars

(* C19: in every state an order with status confirmed has confirmed_at     *)
(* set, one with status shipped has shipped_at set, and one with status    *)
(* delivered has delivered_at set.                                         *)
C19_StatusHasTimestamp ==
    \A i \in DOMAIN orders :
        /\ orders[i].status = "confirmed" => orders[i].confirmed_at # None
        /\ orders[i].status = "shipped" => orders[i].shipped_at # None
        /\ orders[i].status = "delivered" => orders[i].delivered_at # None

(* C19 happens: order 1 was confirmed by mark_paid while order 2 has been  *)
(* updated step by step to delivered                                       *)
C19_Witness ==
    /\ resp.op = "mark_paid"
    /\ resp.status = 200
    /\ orders[1].status = "confirmed"
    /\ orders[1].confirmed_at = Some(now)
    /\ orders[2].status = "delivered"
    /\ orders[2].delivered_at = Some(now)
    /\ orders[2].tracking_number = ""

----------------------------------------------------------------------------
(* Properties of payments *)

(* C13: across confirm, order update and mark_paid, an order's status goes *)
(* from created to confirmed only by the request of a staff user.          *)
C13_ConfirmedByStaffOnly ==
    [][\A i \in DOMAIN orders :
          (orders[i].status = "created" /\ orders'[i].status = "confirmed") =>
              resp'.user \in StaffUsers]_vars

(* The confirm action itself changes nothing for a customer *)
ConfirmActionStaffOnly ==
    [][(resp'.op = "confirm" /\ resp'.user \notin StaffUsers) =>
          (resp'.status = 403 /\ orders' = orders)]_vars

(* C14: every order that the response to a customer's request shows, and   *)
(* every order and payment that the request changes or creates, belongs    *)
(* to that customer.                                                       *)
C14_CustomerReachesOwnRowsOnly ==
    [][resp'.user \in Users =>
          /\ \A i \in resp'.shown : orders'[i].user = resp'.user
          /\ \A i \in DOMAIN orders :
                orders'[i] # orders[i] => orders[i].user = resp'.user
          /\ \A p \in DOMAIN payments :
                payments'[p] # payments[p] => payments[p].user = resp'.user
          /\ \A p \in DOMAIN payments' \ DOMAIN payments :
                payments'[p].user = resp'.user]_vars

(* The part of C14 about changes alone: a customer's request changes only  *)
(* that customer's orders                                                  *)
CustomerChangesOwnOrdersOnly ==
    [][resp'.user \in Users =>
          \A i \in DOMAIN orders :
              orders'[i] # orders[i] => orders[i].user = resp'.user]_vars

(* C15: a payment is created only for an order of the requesting user and  *)
(* with the order's current total_amount as its amount; every other        *)
(* request is answered with a validation error and creates no payment.     *)
C15_PaymentOfOwnOrderAndTotal ==
    [][resp'.op = "payment_create" =>
          LET data == resp'.request
          IN  IF resp'.status = 201
              THEN /\ data.order \in DOMAIN orders
                   /\ orders[data.order].user = resp'.user
                   /\ data.amount = orders[data.order].total_amount
                   /\ Len(payments') = Len(payments) + 1
                   /\ SubSeq(payments', 1, Len(payments)) = payments
                   /\ payments'[Len(payments')].user = resp'.user
                   /\ payments'[Len(payments')].order = data.order
                   /\ payments'[Len(payments')].amount = data.amount
              ELSE /\ resp'.status = 400
                   /\ payments' = payments]_vars

(* C15 happens: u1 has created the payment of order 1 *)
C15_Witness ==
    /\ resp.op = "payment_create"
    /\ resp.status = 201
    /\ resp.user = "u1"
    /\ payments[resp.target].order = 1
    /\ payments[resp.target].amount = orders[1].total_amount
    /\ payments[resp.target].status = "pending"

(* C20: mark_paid, when it reaches a payment that is not completed, sets   *)
(* the payment to completed with paid_at set, moves the payment's order to *)
(* confirmed with confirmed_at set if the order was created, and leaves an *)
(* order in any other status unchanged; when it reaches a completed        *)
(* payment it answers with an error and changes nothing.                   *)
C20_MarkPaid ==
    [][(resp'.op = "mark_paid" /\ resp'.status \notin {403, 404}) =>
          LET id == resp'.target
              o == payments[id].order
          IN  IF payments[id].status # "completed"
              THEN /\ resp'.status = 200
                   /\ payments'[id].status = "completed"
                   /\ payments'[id].paid_at # None
                   /\ IF orders[o].status = "created"
                      THEN /\ orders'[o].status = "confirmed"
                           /\ orders'[o].confirmed_at # None
                      ELSE orders'[o] = orders[o]
                   /\ \A j \in DOMAIN orders : j # o => orders'[j] = orders[j]
              ELSE /\ resp'.status = 400
                   /\ payments' = payments
                   /\ orders' = orders]_vars

(* C20 happens: mark_paid has completed a payment and confirmed its order *)
C20_Witness ==
    /\ resp.op = "mark_paid"
    /\ resp.status = 200
    /\ payments[resp.target].status = "completed"
    /\ payments[resp.target].paid_at = Some(now)
    /\ orders[payments[resp.target].order].status = "confirmed"
    /\ orders[payments[resp.target].order].confirmed_at = Some(now)

----------------------------------------------------------------------------
(* Properties of product prices *)

(* C16: in every state every product with a price has                      *)
(* 0 <= discounted_price <= price.                                         *)
C16_DiscountedPriceInRange ==
    \A id \in DOMAIN products :
        products[id].price # None =>
            /\ 0 <= Product_discounted_price(products[id])
            /\ Product_discounted_price(products[id]) <= products[id].price[1]

(* No stored price is below zero *)
PriceFromZero ==
    \A id \in DOMAIN products :
        products[id].price # None => products[id].price[1] >= 0

----------------------------------------------------------------------------
(* Properties of cart lines *)

AddOps == {"add_item", "post_cart_item"}

(* The add was carried out: add_item answers 500 after the line is saved   *)
(* when the cart cannot be rendered.                                       *)
AddCarriedOut(r) == r.op \in AddOps /\ r.status \in {201, 500}

OneLinePerPair ==
    \A u \in Users : \A i, j \in DOMAIN carts[u].items :
        (/\ carts[u].items[i].product = carts[u].items[j].product
         /\ carts[u].items[i].product_variation = carts[u].items[j].product_variation)
            => i = j

AddMergesIntoLine ==
    [][AddCarriedOut(resp') =>
          LET u == resp'.user
              d == resp'.request
              i == LineOf(carts[u].items, d.product_id, d.product_variation_id)
          IN  i # 0 =>
                  /\ Len(carts'[u].items) = Len(carts[u].items)
                  /\ carts'[u].items =
                         [carts[u].items EXCEPT ![i].quantity = @ + d.quantity]]_vars

(* C21: an add of a (product, variation) already in the cart leaves the    *)
(* number of lines as it was and raises that line's quantity by the added  *)
(* quantity, and in every state reached by adds, updates and removes each  *)
(* cart has at most one line per (product, variation) pair.                *)
C21_OneLinePerPair == []OneLinePerPair /\ AddMergesIntoLine

(* C21 happens: an add has been merged into a line that was there, next to *)
(* a line of another pair                                                  *)
C21_Witness ==
    /\ AddCarriedOut(resp)
    /\ Len(carts[resp.user].items) = 2
    /\ LET i == LineOf(carts[resp.user].items, resp.request.product_id,
                       resp.request.product_variation_id)
       IN  i # 0 /\ carts[resp.user].items[i].quantity > resp.request.quantity

(* The stock a cart line is held against: its variation's, or its         *)
(* product's when it has no variation                                      *)
AvailableStock(line, ps, vs) ==
    IF line.product_variation # NULL
    THEN vs[line.product_variation].stock_quantity
    ELSE ps[line.product].stock_quantity

(* C22: after every successful add (add_item or POST cart-items answered   *)
(* 201) the quantity of the resulting cart line is not above the stock of  *)
(* its variation, or of its product when it has no variation, at that      *)
(* moment.                                                                 *)
C22_AddedLineWithinStock ==
    [][(resp'.op \in AddOps /\ resp'.status = 201) =>
          LET items == carts'[resp'.user].items
              i == LineOf(items, resp'.request.product_id,
                          resp'.request.product_variation_id)
          IN  /\ i # 0
              /\ items[i].quantity <= AvailableStock(items[i], products', variations')]_vars

(* The part that holds: the quantity added by a successful add is not      *)
(* above the stock at that moment                                          *)
AddedQuantityWithinStock ==
    [][(resp'.op \in AddOps /\ resp'.status = 201) =>
          LET items == carts'[resp'.user].items
              i == LineOf(items, resp'.request.product_id,
                          resp'.request.product_variation_id)
          IN  /\ i # 0
              /\ resp'.request.quantity <= AvailableStock(items[i], products', variations')]_vars

----------------------------------------------------------------------------
(* Properties of concurrent order creation *)

OrdersCarrying(code) == {i \in DOMAIN orders : orders[i].coupon = code}

(* C23: under every interleaving of the order-creation requests that use   *)
(* the usage-limited coupon, in every state its times_used is at most its  *)
(* usage_limit and at most usage_limit orders carry the coupon.            *)
C23_UsageLimitUnderConcurrency ==
    \A code \in DOMAIN coupons :
        coupons[code].usage_limit # None =>
            /\ coupons[code].times_used <= coupons[code].usage_limit[1]
            /\ Cardinality(OrdersCarrying(code)) <= coupons[code].usage_limit[1]

(* The first half alone: the stored counter stays within the limit, every  *)
(* request writing one more than a value it read below the limit           *)
TimesUsedWithinLimit ==
    \A code \in DOMAIN coupons :
        coupons[code].usage_limit # None =>
            coupons[code].times_used <= coupons[code].usage_limit[1]

====
